---- MODULE Spec2Model ----
(***************************************************************************)
(* A model of the ICE agent of str0m (src/src/ice/agent.rs): candidate     *)
(* bookkeeping, pair formation, the STUN server and client paths, the      *)
(* timer pacing, nomination and the two output queues.                     *)
(*                                                                         *)
(* Conventions.                                                            *)
(*  - Option<T> is a sequence: None is <<>>, Some(v) is <<v>>.             *)
(*  - Vec indexes are 1-based here (Rust index i is i + 1).                *)
(*  - Instants and Durations are integers, in milliseconds.                *)
(*  - A transport address is an integer; Ipv6Addrs are the IPv6 ones.      *)
(*  - A u64 pair priority 2^32*min + 2*max + flag is the triple            *)
(*    <<min, max, flag>>, ordered lexicographically (same order, since     *)
(*    2*max + flag < 2^32 for every candidate priority used).              *)
(*  - candidate.rs, pair.rs and stun.rs are not part of the sources at     *)
(*    hand: Candidate, CandidatePair and StunMessage follow the            *)
(*    specification's description of them.                                 *)
(***************************************************************************)
EXTENDS Integers, Sequences, FiniteSets, TLC

VARIABLES
    last_now,                   \* Option<Instant>
    remote_credentials,         \* Option<IceCreds>
    controlling,                \* bool
    state,                      \* IceConnectionState
    local_candidates,           \* Vec<Candidate>
    remote_candidates,          \* Vec<Candidate>
    candidate_pairs,            \* Vec<CandidatePair>
    transmit,                   \* VecDeque<Transmit>
    events,                     \* VecDeque<IceAgentEvent>
    stun_server_queue,          \* VecDeque<StunRequest>
    scheduled_nomination_check, \* Option<Instant>
    max_candidate_pairs,        \* Option<usize>, fixed from configuration on
    panicked,                   \* Option<panic message>: the call aborted
    clock,                      \* the host's monotonic clock (latest Instant seen)
    trans_count,                \* number of transaction ids drawn so far
    early_request,              \* history: the host delivered a valid Binding
                                \* request before it set the remote credentials
    last_added,                 \* history: the candidate the host's last call
                                \* added, if that call was an add (polls aside)
    deadline                    \* host: the instant its last poll_timeout
                                \* returned, kept until it ticks at that instant

vars == <<last_now, remote_credentials, controlling, state, local_candidates,
          remote_candidates, candidate_pairs, transmit, events,
          stun_server_queue, scheduled_nomination_check,
          max_candidate_pairs, panicked, clock, trans_count, early_request,
          last_added, deadline>>

-----------------------------------------------------------------------------
(* Option *)

None == <<>>
Some(v) == <<v>>
IsSome(o) == o # <<>>
Get(o) == o[1]

\* let x = e; body: Body applied to the value of e.
LetIn(e, Body(_)) == Body(e)

Min2(a, b) == IF a < b THEN a ELSE b
Max2(a, b) == IF a > b THEN a ELSE b

\* The smallest element of a non-empty set of integers.
MinOf(S) == CHOOSE i \in S : \A j \in S : i <= j

\* A set of integers as an ascending sequence.
Ascending(S) ==
    [k \in 1..Cardinality(S) |->
        CHOOSE i \in S : Cardinality({j \in S : j < i}) = k - 1]

\* The indexes of s, in order, whose element satisfies Test.
SelectIdx(s, Test(_)) == Ascending({i \in 1..Len(s) : Test(s[i])})

\* Iterator::find over an enumerated Vec: the first index, or 0.
FirstIdx(s, Test(_)) ==
    LET hits == {i \in 1..Len(s) : Test(s[i])} IN IF hits = {} THEN 0 ELSE MinOf(hits)

-----------------------------------------------------------------------------
(* Bounds of the model *)

MaxLocal == 3        \* local_candidates holds at most this many
MaxRemote == 2       \* remote_candidates holds at most this many
MaxTime == 100       \* the host's clock stops here
MaxTransmit == 2     \* transmit holds at most this many unpolled datagrams
MaxEvents == 2       \* events holds at most this many unpolled events
MaxTrans == 2        \* transaction ids drawn by new_attempt
MaxRequests == 1     \* Binding requests counted on one pair

\* No pair has counted more than n remote Binding requests.
WithinRequests(pairs, n) ==
    \A i \in 1..Len(pairs) : pairs[i].remote_binding_requests <= n

\* The state is within the bounds b of a specification.
Within(b) ==
    /\ Len(local_candidates) <= b.local
    /\ Len(remote_candidates) <= b.remote
    /\ clock <= b.time
    /\ Len(transmit) <= b.transmit
    /\ Len(events) <= b.events
    /\ trans_count <= b.trans
    /\ WithinRequests(candidate_pairs, b.requests)

Bounds ==
    [local |-> MaxLocal, remote |-> MaxRemote, time |-> MaxTime,
     transmit |-> MaxTransmit, events |-> MaxEvents, trans |-> MaxTrans,
     requests |-> MaxRequests]

-----------------------------------------------------------------------------
(* Program constants *)

TIMING_ADVANCE == 50
DefaultMaxCandidatePairs == 100
StunServerQueueCap == 100
REMOTE_PEER_REFLEXIVE_TEMP_FOUNDATION == "tmp_prflx"

\* IceAgent::ice_lite is false from construction on: nothing sets it.
ice_lite == FALSE

\* pair.rs / stun.rs (not at hand): the retransmit schedule of the specification.
STUN_TIMEOUT == 39500
STUN_INITIAL_RTO == 500
STUN_MAX_RETRANS == 7

-----------------------------------------------------------------------------
(* Candidate (candidate.rs, from the specification) *)

Ipv6Addrs == {6, 7}
is_ipv6(a) == a \in Ipv6Addrs
is_ipv4(a) == ~is_ipv6(a)

TypePref(kind) ==
    CASE kind = "Host" -> 126
      [] kind = "PeerReflexive" -> 110
      [] kind = "ServerReflexive" -> 100
      [] kind = "Relayed" -> 0

\* u32 values. The integers at hand are 32 bits wide and signed, so a u32
\* beyond 2^31 - 1 is held as the same 32 bits read as signed: v stands as
\* v - 2^32 (4294967294 as -2). Sums and products of such values are the
\* wrapping ones of u32; the order of u32 is U32Less.
U32Less(a, b) == IF (a < 0) = (b < 0) THEN a < b ELSE b < 0

\* u32::MAX
U32Max == 0 - 1

\* (a + 1) mod 2^32
wrapping_succ(a) == IF a = 2147483647 THEN (0 - 2147483647) - 1 ELSE a + 1

\* (2 * a + flag) mod 2^32, flag 0 or 1: twice a without its bit 31, and what
\* that comes to read as 32 signed bits.
twice_plus(a, flag) ==
    LET r == IF a < 0 THEN (a + 2147483647) + 1 ELSE a
    IN IF r >= 1073741824
       THEN ((2 * (r - 1073741824) + flag) - 2147483647) - 1
       ELSE 2 * r + flag

\* (2^24)*type_pref + (2^8)*local_pref + (256 - component_id)
PrioOf(kind, pref, comp) == TypePref(kind) * (2 ^ 24) + pref * (2 ^ 8) + (256 - comp)

\* Candidate::prio: the signalled priority when there is one, else computed.
prio(c) ==
    IF IsSome(c.prio) THEN Get(c.prio) ELSE PrioOf(c.kind, Get(c.pref), c.comp)

\* Candidate::prio_prflx: the priority were the kind PeerReflexive (a candidate
\* created with a priority, itself peer reflexive, keeps it).
prio_prflx(c) ==
    IF IsSome(c.prio) THEN Get(c.prio) ELSE PrioOf("PeerReflexive", Get(c.pref), c.comp)

set_local_preference(c, p) == [c EXCEPT !.pref = Some(p)]
set_discarded(c) == [c EXCEPT !.discarded = TRUE]

Candidate(kind, addr, base, raddr, comp, found, pr) ==
    [kind |-> kind, addr |-> addr, base |-> base, raddr |-> raddr, comp |-> comp,
     found |-> found, pref |-> None, prio |-> pr, discarded |-> FALSE]

\* Candidate::host, Candidate::server_reflexive, Candidate::peer_reflexive
Host(addr) == Candidate("Host", addr, addr, None, 1, "host", None)
ServerReflexive(addr, base) ==
    Candidate("ServerReflexive", addr, base, Some(base), 1, "srflx", None)
peer_reflexive(addr, base, pr, found) ==
    Candidate("PeerReflexive", addr, base, None, 1, found, Some(pr))

-----------------------------------------------------------------------------
(* CandidatePair (pair.rs, from the specification) *)

\* The pair priority is a u64, held as <<upper, lower>>: its upper and its
\* lower 32 bits, each a u32.

\* 2^32*min(G,D) + 2*max(G,D) + (G>D?1:0) leaves the range of u64: both
\* priorities are u32::MAX. A build with overflow checks panics there, a build
\* without them wraps.
calculate_prio_overflows(ctl, remote_prio, local_prio) ==
    remote_prio = U32Max /\ local_prio = U32Max

\* pair_prio = 2^32*min(G,D) + 2*max(G,D) + (G>D?1:0), G the controlling side's,
\* wrapping. 2*max carries into the upper half when max has its bit 31.
calculate_prio(ctl, remote_prio, local_prio) ==
    LET G == IF ctl THEN local_prio ELSE remote_prio
        D == IF ctl THEN remote_prio ELSE local_prio
        lesser == IF U32Less(D, G) THEN D ELSE G
        greater == IF U32Less(D, G) THEN G ELSE D
        flag == IF U32Less(D, G) THEN 1 ELSE 0
    IN <<IF greater < 0 THEN wrapping_succ(lesser) ELSE lesser,
         twice_plus(greater, flag)>>

\* The order of u64.
PrioLess(p, q) ==
    IF p[1] # q[1] THEN U32Less(p[1], q[1]) ELSE U32Less(p[2], q[2])
PrioGeq(p, q) == ~PrioLess(p, q)

NewPair(l, r, pr) ==
    [local_idx |-> l, remote_idx |-> r, prio |-> pr, state |-> "Waiting",
     attempts |-> <<>>, remote_binding_requests |-> 0, nominated |-> FALSE,
     valid_idx |-> None]

\* The length of the longest prefix of s that is already in descending order.
sorted_prefix(s) ==
    LetIn({j \in 1..(Len(s) - 1) : PrioLess(s[j].prio, s[j + 1].prio)}, LAMBDA breaks :
      IF breaks = {} THEN Len(s) ELSE CHOOSE j \in breaks : \A k \in breaks : j <= k)

\* Where element i of s stands after a stable sort by descending priority:
\* behind every element of higher priority and every earlier one of the same.
sorted_position(s, i) ==
    1 + Cardinality({j \in 1..Len(s) :
                        \/ PrioLess(s[i].prio, s[j].prio)
                        \/ (s[j].prio = s[i].prio /\ j < i)})

\* Vec::sort with CandidatePair's Ord: descending priority, stable. The
\* elements behind the sorted prefix take the places `moved`; the elements of
\* the prefix fill the other places in their order.
SortPairs(s) ==
    LetIn(sorted_prefix(s), LAMBDA m :
      IF m = Len(s) THEN s
      ELSE LetIn([i \in (m + 1)..Len(s) |-> sorted_position(s, i)], LAMBDA pos :
           LetIn({pos[i] : i \in (m + 1)..Len(s)}, LAMBDA moved :
             [k \in 1..Len(s) |->
                IF k \in moved
                THEN s[CHOOSE i \in (m + 1)..Len(s) : pos[i] = k]
                ELSE s[k - Cardinality({t \in moved : t < k})]])))

-----------------------------------------------------------------------------
(* Checklist: IceAgent::form_pairs and IceAgent::discard_candidate_pairs *)

\* Redundancy told by the remote candidate's index, not by its addr.
redundant_by_index(locals, remotes, l, r, check) ==
    /\ locals[l].base = locals[check.local_idx].base
    /\ r = check.remote_idx

\* Two pairs are redundant when their local candidates have the same base and
\* their remote candidates the same addr.
redundant(locals, remotes, l, r, check) ==
    /\ locals[l].base = locals[check.local_idx].base
    /\ remotes[r].addr = remotes[check.remote_idx].addr

\* The body of form_pairs' inner loop for one (local_idx, remote_idx).
form_one_pair(pairs, locals, remotes, ctl, l, r) ==
    LET Red(check) == redundant(locals, remotes, l, r, check)
    IN LetIn(NewPair(l, r, calculate_prio(ctl, prio(remotes[r]), prio(locals[l]))),
             LAMBDA pair :
       LetIn(FirstIdx(pairs, Red), LAMBDA check_idx :
         IF check_idx # 0
         THEN IF PrioGeq(pairs[check_idx].prio, pair.prio)
              THEN pairs
              ELSE [pairs EXCEPT ![check_idx] = pair]
         ELSE Append(pairs, pair)))

\* The loops of form_pairs over combos[lo..hi], the sequence of
\* <<local_idx, remote_idx>>, in order. The range is halved, and the first half
\* is computed (its length taken) before the second starts, which keeps the
\* evaluation shallow.
RECURSIVE form_loop(_, _, _, _, _, _, _)
form_loop(pairs, locals, remotes, ctl, combos, lo, hi) ==
    IF lo > hi THEN pairs
    ELSE IF lo = hi
    THEN form_one_pair(pairs, locals, remotes, ctl, combos[lo][1], combos[lo][2])
    ELSE LetIn(form_loop(pairs, locals, remotes, ctl, combos, lo, (lo + hi) \div 2),
               LAMBDA first :
           IF Len(first) >= 0
           THEN form_loop(first, locals, remotes, ctl, combos,
                          ((lo + hi) \div 2) + 1, hi)
           ELSE first)

\* for local_idx in local_idxs { for remote_idx in remote_idxs { .. } }
Combos(local_idxs, remote_idxs) ==
    [n \in 1..(Len(local_idxs) * Len(remote_idxs)) |->
        <<local_idxs[((n - 1) \div Len(remote_idxs)) + 1],
          remote_idxs[((n - 1) % Len(remote_idxs)) + 1]>>]

\* max_candidate_pairs.unwrap_or(100)
pair_limit(maxp) == IF IsSome(maxp) THEN Get(maxp) ELSE DefaultMaxCandidatePairs

\* while len > max { pop() }
truncate_pairs(pairs, maxp) ==
    IF Len(pairs) > pair_limit(maxp) THEN SubSeq(pairs, 1, pair_limit(maxp)) ELSE pairs

\* The first combination of form_pairs' loops whose priority overflows, as an
\* index into the combinations, or 0.
first_overflow(locals, remotes, ctl, combos) ==
    LetIn({n \in 1..Len(combos) :
             calculate_prio_overflows(ctl, prio(remotes[combos[n][2]]),
                                      prio(locals[combos[n][1]]))},
          LAMBDA over : IF over = {} THEN 0 ELSE MinOf(over))

\* form_pairs panics in a build with overflow checks.
form_pairs_overflows(locals, remotes, ctl, local_idxs, remote_idxs) ==
    first_overflow(locals, remotes, ctl, Combos(local_idxs, remote_idxs)) # 0

\* The checklist form_pairs leaves when it panics: the combinations before the
\* overflowing one are done, nothing is sorted or cut.
form_pairs_interrupted(pairs, locals, remotes, ctl, local_idxs, remote_idxs) ==
    LetIn(Combos(local_idxs, remote_idxs), LAMBDA combos :
      form_loop(pairs, locals, remotes, ctl, combos, 1,
                first_overflow(locals, remotes, ctl, combos) - 1))

form_pairs(pairs, locals, remotes, ctl, maxp, local_idxs, remote_idxs) ==
    truncate_pairs(
        SortPairs(LetIn(Combos(local_idxs, remote_idxs), LAMBDA combos :
                    form_loop(pairs, locals, remotes, ctl, combos, 1, Len(combos)))),
        maxp)

discard_candidate_pairs(pairs, local_idx) ==
    LET Keep(p) == p.local_idx # local_idx IN SelectSeq(pairs, Keep)

-----------------------------------------------------------------------------
(* IceAgent::add_local_candidate, add_remote_candidate, invalidate_candidate *)

counter_start(c) ==
    (CASE c.kind = "Host" -> 65535
       [] c.kind = "PeerReflexive" -> 49151
       [] c.kind = "ServerReflexive" -> 32767
       [] c.kind = "Relayed" -> 16383)
    - (IF is_ipv6(c.addr) THEN 0 ELSE 1)

\* same_kind without the filter on the address family.
same_kind_any_family(locals, c) ==
    Cardinality({i \in 1..Len(locals) : locals[i].kind = c.kind})

same_kind(locals, c) ==
    Cardinality({i \in 1..Len(locals) :
        locals[i].kind = c.kind /\ is_ipv6(locals[i].addr) = is_ipv6(c.addr)})

\* `counter_start - same_kind * 2` leaves the range of u32 (the product does
\* not, for any list that can be held): a build with overflow checks panics
\* there, a build without them wraps.
local_preference_overflows(locals, c) == same_kind(locals, c) * 2 > counter_start(c)

\* let pref = counter_start - same_kind * 2, wrapping: below zero the result
\* is the u32 2^32 - (same_kind * 2 - counter_start), held as said at U32Less.
local_preference_for(locals, c) == counter_start(c) - same_kind(locals, c) * 2

\* other.set_discarded() on the redundant candidate found at idx.
discard_other(locals, idx) == [locals EXCEPT ![idx] = set_discarded(@)]

\* events.push_back(NewLocalCandidate(c)), with the event left out.
push_no_event(evs, c) == evs

\* events.push_back(IceAgentEvent::NewLocalCandidate(c.clone()))
push_new_local_candidate(evs, c) ==
    Append(evs, [type |-> "NewLocalCandidate", cand |-> c])

\* The result of add_local_candidate(c0): the return value and the new fields.
add_local_candidate(c0, overflow_checks) ==
    LET c == set_local_preference(c0, local_preference_for(local_candidates, c0))
        Same(v) == v.addr = c.addr /\ v.base = c.base
        idx == FirstIdx(local_candidates, Same)
        unchanged == [panic |-> None, ret |-> FALSE, locals |-> local_candidates,
                      pairs |-> candidate_pairs, events |-> events]
    IN IF ice_lite /\ c0.kind # "Host" THEN unchanged
       ELSE IF overflow_checks /\ local_preference_overflows(local_candidates, c0)
       THEN [unchanged EXCEPT !.panic = Some("attempt to subtract with overflow")]
       ELSE IF idx # 0 /\ U32Less(prio(c), prio(local_candidates[idx])) THEN unchanged
       ELSE
         LET locals1 == IF idx # 0
                        THEN discard_other(local_candidates, idx)
                        ELSE local_candidates
             pairs1 == IF idx # 0
                       THEN discard_candidate_pairs(candidate_pairs, idx)
                       ELSE candidate_pairs
             Pairable(v) == ~v.discarded /\ is_ipv4(v.addr) = is_ipv4(c.addr)
             remote_idxs == SelectIdx(remote_candidates, Pairable)
             locals2 == Append(locals1, c)
         IN IF /\ overflow_checks
               /\ form_pairs_overflows(locals2, remote_candidates, controlling,
                                       <<Len(locals2)>>, remote_idxs)
            THEN [panic |-> Some("attempt to add with overflow"),
                  ret |-> FALSE,
                  locals |-> locals2,
                  pairs |-> form_pairs_interrupted(pairs1, locals2, remote_candidates,
                                controlling, <<Len(locals2)>>, remote_idxs),
                  events |-> push_new_local_candidate(events, c)]
            ELSE
            [panic |-> None,
             ret |-> TRUE,
             locals |-> locals2,
             pairs |-> form_pairs(pairs1, locals2, remote_candidates, controlling,
                                  max_candidate_pairs, <<Len(locals2)>>, remote_idxs),
             events |-> push_new_local_candidate(events, c)]

\* The result of add_remote_candidate(c) in a build with or without overflow
\* checks.
add_remote_candidate(c, overflow_checks) ==
    LET Temp(v) == /\ v.found = REMOTE_PEER_REFLEXIVE_TEMP_FOUNDATION
                   /\ v.addr = c.addr
                   /\ prio(v) = prio(c)
                   /\ v.kind = "PeerReflexive"
        existing == FirstIdx(remote_candidates, Temp)
    IN IF c.comp # 1
       THEN [panic |-> None, ret |-> FALSE, remotes |-> remote_candidates,
             pairs |-> candidate_pairs]
       ELSE
         LET remotes1 == IF existing # 0
                         THEN [remote_candidates EXCEPT ![existing] = c]
                         ELSE Append(remote_candidates, c)
             remote_idx == IF existing # 0 THEN existing ELSE Len(remotes1)
             Pairable(v) == ~v.discarded /\ is_ipv4(v.addr) = is_ipv4(c.addr)
             local_idxs == SelectIdx(local_candidates, Pairable)
         IN IF /\ overflow_checks
               /\ form_pairs_overflows(local_candidates, remotes1, controlling,
                                       local_idxs, <<remote_idx>>)
            THEN [panic |-> Some("attempt to add with overflow"),
                  ret |-> FALSE,
                  remotes |-> remotes1,
                  pairs |-> form_pairs_interrupted(candidate_pairs, local_candidates,
                                remotes1, controlling, local_idxs, <<remote_idx>>)]
            ELSE
            [panic |-> None,
             ret |-> TRUE,
             remotes |-> remotes1,
             pairs |-> form_pairs(candidate_pairs, local_candidates, remotes1,
                                  controlling, max_candidate_pairs,
                                  local_idxs, <<remote_idx>>)]

\* The result of invalidate_candidate(c).
invalidate_candidate(c) ==
    LET Same(v) == v.addr = c.addr /\ v.base = c.base /\ v.raddr = c.raddr
        idx == FirstIdx(local_candidates, Same)
    IN IF idx # 0 /\ ~local_candidates[idx].discarded
       THEN [ret |-> TRUE,
             locals |-> [local_candidates EXCEPT ![idx] = set_discarded(@)],
             pairs |-> discard_candidate_pairs(candidate_pairs, idx)]
       ELSE [ret |-> FALSE, locals |-> local_candidates, pairs |-> candidate_pairs]

-----------------------------------------------------------------------------
(* CandidatePair's probe state (pair.rs, from the specification) *)

\* Exponential backoff from the initial RTO, bounded by STUN_TIMEOUT.
stun_resend_delay(n) == Min2(STUN_INITIAL_RTO * (2 ^ (n - 1)), STUN_TIMEOUT)

\* When the next probe should fire: now when no attempt was made yet.
next_binding_attempt(p, now) ==
    IF p.attempts = <<>> THEN now
    ELSE p.attempts[Len(p.attempts)].sent + stun_resend_delay(Len(p.attempts))

\* False once the retry budget is spent without success.
is_still_possible(p, now) ==
    ~ (/\ p.state # "Succeeded"
       /\ Len(p.attempts) >= STUN_MAX_RETRANS
       /\ now >= next_binding_attempt(p, now))

has_binding_attempt(p, trans_id) ==
    \E i \in 1..Len(p.attempts) : p.attempts[i].id = trans_id

\* Records the send time under a fresh transaction id; Waiting -> InProgress.
new_attempt(p, now, trans_id) ==
    [p EXCEPT !.attempts = Append(@, [id |-> trans_id, sent |-> now]),
              !.state = IF @ = "Waiting" THEN "InProgress" ELSE @]

\* record_binding_response that keeps the local candidate the probe was sent
\* from as the valid one, whatever the mapped address said.
record_binding_response_sent_from(p, now, trans_id, valid_idx) ==
    [p EXCEPT !.valid_idx = Some(p.local_idx), !.state = "Succeeded"]

record_binding_response(p, now, trans_id, valid_idx) ==
    [p EXCEPT !.valid_idx = Some(valid_idx), !.state = "Succeeded"]

increase_remote_binding_requests(p) ==
    [p EXCEPT !.remote_binding_requests = @ + 1]

nominate(p) == [p EXCEPT !.nominated = TRUE]

-----------------------------------------------------------------------------
(* StunMessage (stun.rs, from the specification) *)

\* A message carries the password its MESSAGE-INTEGRITY was computed with.
BindingRequest(left, right, key, trans_id, ctl, pr, use_candidate) ==
    [class |-> "request", left |-> left, right |-> right, key |-> key,
     trans_id |-> trans_id, controlling |-> ctl, prio |-> Some(pr),
     use_candidate |-> use_candidate, mapped |-> None]

\* StunMessage::reply: a Binding success response with XOR-MAPPED-ADDRESS.
Reply(trans_id, mapped, key) ==
    [class |-> "success", left |-> "", right |-> "", key |-> key,
     trans_id |-> trans_id, controlling |-> FALSE, prio |-> None,
     use_candidate |-> FALSE, mapped |-> Some(mapped)]

is_binding_request(m) == m.class = "request"
is_response(m) == m.class \in {"success", "failure"}
is_successful_binding_response(m) == m.class = "success"
\* USERNAME split on the first ':'.
split_username(m) == <<m.left, m.right>>
check_integrity(m, password) == m.key = password

-----------------------------------------------------------------------------
(* Credentials *)

local_credentials == [username |-> "L", password |-> "Lpwd"]

\* stun_credentials with the two passwords the other way round.
stun_credentials_swapped(reply) ==
    IF remote_credentials = None
    THEN [panic |-> Some("Remote ICE credentials"), username |-> <<>>, password |-> ""]
    ELSE LET peer == Get(remote_credentials)
         IN [panic |-> None,
             username |-> IF reply THEN <<"not_used", "not_used">>
                          ELSE <<peer.username, local_credentials.username>>,
             password |-> IF reply THEN peer.password
                          ELSE local_credentials.password]

\* stun_credentials(reply): the username (left, right) and the password. The
\* remote credentials are unwrapped with expect before reply is looked at, so
\* without them the call panics whatever reply is.
stun_credentials(reply) ==
    IF remote_credentials = None
    THEN [panic |-> Some("Remote ICE credentials"), username |-> <<>>, password |-> ""]
    ELSE LET peer == Get(remote_credentials)
         IN [panic |-> None,
             username |-> IF reply THEN <<"not_used", "not_used">>
                          ELSE <<peer.username, local_credentials.username>>,
             password |-> IF reply THEN local_credentials.password
                          ELSE peer.password]

\* accepts_message: "accept", "reject", or "panic" where stun_credentials
\* finds no remote credentials.
accepts_message(m) ==
    LET names == split_username(m)
        local == names[1]
        remote == names[2]
    IN IF is_binding_request(m) /\ local # local_credentials.username
       THEN "reject"
       ELSE IF /\ is_binding_request(m)
               /\ IsSome(remote_credentials)
               /\ remote # Get(remote_credentials).username
       THEN "reject"
       ELSE LetIn(stun_credentials(~is_response(m)), LAMBDA creds :
              IF IsSome(creds.panic) THEN "panic"
              ELSE IF ~check_integrity(m, creds.password) THEN "reject"
              ELSE "accept")

-----------------------------------------------------------------------------
(* The STUN server path *)

StunRequest(now, source, destination, m) ==
    [now |-> now, source |-> source, destination |-> destination,
     trans_id |-> m.trans_id, prio |-> Get(m.prio), use_candidate |-> m.use_candidate,
     remote_username |-> split_username(m)[2]]

\* The push without the sort that follows it.
server_insert_pair_unsorted(pairs, pair) == Append(pairs, pair)

\* self.candidate_pairs.push(pair); self.candidate_pairs.sort();
server_insert_pair(pairs, pair) == SortPairs(Append(pairs, pair))

\* response_transmit with source and destination the other way round.
response_transmit_swapped(p, remotes, req) ==
    [source |-> remotes[p.remote_idx].addr,
     destination |-> local_candidates[p.local_idx].base,
     contents |-> Reply(req.trans_id, req.source, stun_credentials(TRUE).password)]

\* The Transmit of a Binding success response for req on pair p.
response_transmit(p, remotes, req) ==
    [source |-> local_candidates[p.local_idx].base,
     destination |-> remotes[p.remote_idx].addr,
     contents |-> Reply(req.trans_id, req.source, stun_credentials(TRUE).password)]

\* peer_reflexive_remote with its own addr as the priority, not the request's.
peer_reflexive_remote_unranked(req) ==
    peer_reflexive(req.source, req.source, req.source,
                   REMOTE_PEER_REFLEXIVE_TEMP_FOUNDATION)

\* The remote candidate made for a request from a source not known so far.
peer_reflexive_remote(req) ==
    peer_reflexive(req.source, req.source, req.prio,
                   REMOTE_PEER_REFLEXIVE_TEMP_FOUNDATION)

\* request_rejected without the test of USE-CANDIDATE against the role.
request_rejected_by_name(req) ==
    req.remote_username # Get(remote_credentials).username

\* The two early returns of stun_server_handle_request: the remote ufrag of
\* the request is not the stored one, or USE-CANDIDATE came to a controlling agent.
request_rejected(req) ==
    \/ req.remote_username # Get(remote_credentials).username
    \/ req.use_candidate /\ controlling

\* The result of stun_server_handle_request(now, req): the fields it writes, and
\* the panic it ends in, if any.
stun_server_handle_request(now, req, overflow_checks) ==
    LET same == [panic |-> None, remotes |-> remote_candidates,
                 pairs |-> candidate_pairs, sched |-> scheduled_nomination_check,
                 transmit |-> transmit]
        Src(c) == ~c.discarded /\ c.addr = req.source
        Dst(v) == v.kind \in {"Host", "Relayed"} /\ v.addr = req.destination
    IN IF request_rejected(req) THEN same
       ELSE
       LetIn(FirstIdx(remote_candidates, Src), LAMBDA found_in_remote :
       LetIn(IF found_in_remote # 0 THEN remote_candidates
             ELSE Append(remote_candidates, peer_reflexive_remote(req)),
             LAMBDA remotes1 :
       LetIn(IF found_in_remote # 0 THEN found_in_remote ELSE Len(remotes1),
             LAMBDA remote_idx :
       LetIn(FirstIdx(local_candidates, Dst), LAMBDA local_idx :
         IF local_idx = 0
         THEN [same EXCEPT !.panic = Some("config error"), !.remotes = remotes1]
         ELSE
         LET Is(p) == p.local_idx = local_idx /\ p.remote_idx = remote_idx
         IN
         IF /\ overflow_checks
            /\ FirstIdx(candidate_pairs, Is) = 0
            /\ calculate_prio_overflows(controlling, prio(remotes1[remote_idx]),
                                        prio(local_candidates[local_idx]))
         THEN [same EXCEPT !.panic = Some("attempt to add with overflow"),
                           !.remotes = remotes1]
         ELSE
         LetIn(IF FirstIdx(candidate_pairs, Is) # 0 THEN candidate_pairs
               ELSE server_insert_pair(candidate_pairs,
                        NewPair(local_idx, remote_idx,
                                calculate_prio(controlling, prio(remotes1[remote_idx]),
                                               prio(local_candidates[local_idx])))),
               LAMBDA pairs1 :
         LetIn(FirstIdx(pairs1, Is), LAMBDA k :
         LetIn(increase_remote_binding_requests(pairs1[k]), LAMBDA p1 :
         LetIn(IF ~controlling /\ req.use_candidate /\ ~p1.nominated
               THEN nominate(p1) ELSE p1,
               LAMBDA p2 :
           [panic |-> None,
            remotes |-> remotes1,
            pairs |-> [pairs1 EXCEPT ![k] = p2],
            sched |-> IF /\ controlling
                         /\ ~p1.nominated
                         /\ p1.state = "Succeeded"
                         /\ scheduled_nomination_check = None
                      THEN Some(now + TIMING_ADVANCE)
                      ELSE scheduled_nomination_check,
            transmit |-> Append(transmit, response_transmit(p2, remotes1, req))]
         ))))))))

\* queue.push_back(req); while queue.len() > 100 { queue.pop_front() }
enqueue_request(queue, req) ==
    LET q == Append(queue, req)
    IN IF Len(q) > StunServerQueueCap
       THEN SubSeq(q, Len(q) - StunServerQueueCap + 1, Len(q)) ELSE q

-----------------------------------------------------------------------------
(* The STUN client path *)

\* use_candidate_on that does not look at the pair: USE-CANDIDATE on every
\* request of a controlling agent.
use_candidate_on_any(pair) == controlling

\* let use_candidate = self.controlling && pair.is_nominated();
use_candidate_on(pair) == controlling /\ pair.nominated

\* The result of stun_client_binding_request(now, pair_idx) on the checklist
\* pairs: the probe is sent under transaction id trans_id.
stun_client_binding_request(pairs, now, pair_idx, trans_id) ==
    LetIn(stun_credentials(FALSE), LAMBDA creds :
    LetIn(pairs[pair_idx], LAMBDA pair :
      [pairs |-> [pairs EXCEPT ![pair_idx] = new_attempt(pair, now, trans_id)],
       transmit |->
         Append(transmit,
                [source |-> local_candidates[pair.local_idx].base,
                 destination |-> remote_candidates[pair.remote_idx].addr,
                 contents |->
                   BindingRequest(creds.username[1], creds.username[2], creds.password, trans_id,
                                  controlling,
                                  prio_prflx(local_candidates[pair.local_idx]),
                                  use_candidate_on(pair))])]))

\* schedule_on_reply that does not look whether a check is pending.
schedule_on_reply_again(pair, now) ==
    IF /\ controlling
       /\ ~pair.nominated
       /\ pair.remote_binding_requests > 0
    THEN Some(now + TIMING_ADVANCE)
    ELSE scheduled_nomination_check

\* The scheduled nomination check stun_client_handle_response leaves, pair
\* being the pair that has recorded the response.
schedule_on_reply(pair, now) ==
    IF /\ controlling
       /\ ~pair.nominated
       /\ pair.remote_binding_requests > 0
       /\ scheduled_nomination_check = None
    THEN Some(now + TIMING_ADVANCE)
    ELSE scheduled_nomination_check

\* The result of stun_client_handle_response(now, m).
stun_client_handle_response(now, m) ==
    LET Owns(p) == has_binding_attempt(p, m.trans_id)
        Mapped(c) == c.addr = Get(m.mapped)
    IN LetIn(FirstIdx(candidate_pairs, Owns), LAMBDA k :
       IF k = 0
       THEN [locals |-> local_candidates, pairs |-> candidate_pairs,
             sched |-> scheduled_nomination_check]
       ELSE
       LetIn(FirstIdx(local_candidates, Mapped), LAMBDA found_in_local :
       LetIn(local_candidates[candidate_pairs[k].local_idx], LAMBDA local_sent_from :
       LetIn(IF found_in_local # 0 THEN local_candidates
             ELSE Append(local_candidates,
                         peer_reflexive(Get(m.mapped), local_sent_from.base,
                                        prio_prflx(local_sent_from), "")),
             LAMBDA locals1 :
       LetIn(IF found_in_local # 0 THEN found_in_local ELSE Len(locals1),
             LAMBDA valid_idx :
       LetIn(record_binding_response(candidate_pairs[k], now, m.trans_id, valid_idx),
             LAMBDA p1 :
         [locals |-> locals1,
          pairs |-> [candidate_pairs EXCEPT ![k] = p1],
          sched |-> schedule_on_reply(p1, now)]))))))

\* attempt_nomination with min_by_key in max_by_key's place: the eligible pair
\* of lowest priority is nominated.
attempt_nomination_lowest(pairs) ==
    LET Eligible == {i \in 1..Len(pairs) :
                        /\ pairs[i].state = "Succeeded"
                        /\ pairs[i].remote_binding_requests > 0}
        Worst == {i \in Eligible :
                    \A j \in Eligible : PrioGeq(pairs[j].prio, pairs[i].prio)}
    IN IF Eligible = {} THEN pairs
       ELSE LET worst == MinOf(Worst)
            IN IF pairs[worst].nominated THEN pairs
               ELSE [pairs EXCEPT ![worst] = nominate(@)]

\* attempt_nomination: max_by_key keeps the last of equally high pairs.
attempt_nomination(pairs) ==
    LET Eligible == {i \in 1..Len(pairs) :
                        /\ pairs[i].state = "Succeeded"
                        /\ pairs[i].remote_binding_requests > 0}
        Best == {i \in Eligible :
                    \A j \in Eligible :
                        \/ PrioLess(pairs[j].prio, pairs[i].prio)
                        \/ (pairs[j].prio = pairs[i].prio /\ j <= i)}
    IN IF Eligible = {} THEN pairs
       ELSE LET best == MinOf(Best)
            IN IF pairs[best].nominated THEN pairs
               ELSE [pairs EXCEPT ![best] = nominate(@)]

-----------------------------------------------------------------------------
(* IceAgent::handle_receive *)

\* The result of handle_receive(now, receive); receive.contents is None for a
\* datagram that is not STUN.
handle_receive(now, receive, overflow_checks) ==
    LET same == [panic |-> None, locals |-> local_candidates,
                 remotes |-> remote_candidates, pairs |-> candidate_pairs,
                 sched |-> scheduled_nomination_check, transmit |-> transmit,
                 queue |-> stun_server_queue]
    IN IF receive.contents = None THEN same
       ELSE
       LetIn(Get(receive.contents), LAMBDA message :
       LetIn(accepts_message(message), LAMBDA accepted :
         IF accepted = "panic"
         THEN [same EXCEPT !.panic = Some("Remote ICE credentials")]
         ELSE IF accepted = "reject" THEN same
         ELSE IF is_binding_request(message)
         THEN \* stun_server_handle_message: message.prio().expect("STUN request prio")
              IF message.prio = None
              THEN [same EXCEPT !.panic = Some("STUN request prio")]
              ELSE
              LetIn(StunRequest(now, receive.source, receive.destination, message),
                    LAMBDA req :
                IF IsSome(remote_credentials)
                THEN LetIn(stun_server_handle_request(now, req, overflow_checks),
                           LAMBDA served :
                       [same EXCEPT !.panic = served.panic, !.remotes = served.remotes,
                                    !.pairs = served.pairs, !.sched = served.sched,
                                    !.transmit = served.transmit])
                ELSE [same EXCEPT !.queue = enqueue_request(stun_server_queue, req)])
         ELSE IF is_successful_binding_response(message)
         THEN LetIn(stun_client_handle_response(now, message), LAMBDA answered :
                [same EXCEPT !.locals = answered.locals, !.pairs = answered.pairs,
                             !.sched = answered.sched])
         ELSE same))

-----------------------------------------------------------------------------
(* IceAgent::handle_timeout and IceAgent::poll_timeout *)

\* set_connection_state that changes the state and tells nobody.
set_connection_state_silent(new) == [state |-> new, events |-> events]

\* set_connection_state(new): the state and the event queue it leaves.
set_connection_state(new) ==
    IF state # new
    THEN [state |-> new,
          events |-> Append(events, [type |-> "IceConnectionStateChange",
                                     state |-> new])]
    ELSE [state |-> state, events |-> events]

\* while let Some(peek) = queue.front() { if now - peek.now >= STUN_TIMEOUT { pop } }
RECURSIVE drop_stale(_, _)
drop_stale(queue, now) ==
    IF queue # <<>> /\ now - Head(queue).now >= STUN_TIMEOUT
    THEN drop_stale(Tail(queue), now) ELSE queue

\* max_by_key in min_by_key's place: the last pair of the earliest time.
next_pair_last(pairs, now) ==
    MinOf({i \in 1..Len(pairs) :
              \A j \in 1..Len(pairs) :
                  \/ next_binding_attempt(pairs[i], now) < next_binding_attempt(pairs[j], now)
                  \/ /\ next_binding_attempt(pairs[i], now) = next_binding_attempt(pairs[j], now)
                     /\ i >= j})

\* min_by_key over next_binding_attempt: the first pair of the earliest time.
next_pair(pairs, now) ==
    MinOf({i \in 1..Len(pairs) :
              \A j \in 1..Len(pairs) :
                  \/ next_binding_attempt(pairs[i], now) < next_binding_attempt(pairs[j], now)
                  \/ /\ next_binding_attempt(pairs[i], now) = next_binding_attempt(pairs[j], now)
                     /\ i <= j})

\* The probe of pairs[idx] sent although no remote credentials are set, with
\* an empty remote ufrag and password.
blind_binding_request(pairs, now, pair_idx, trans_id) ==
    [pairs |-> [pairs EXCEPT ![pair_idx] = new_attempt(@, now, trans_id)],
     transmit |->
       Append(transmit,
              [source |-> local_candidates[pairs[pair_idx].local_idx].base,
               destination |-> remote_candidates[pairs[pair_idx].remote_idx].addr,
               contents |->
                 BindingRequest("", local_credentials.username, "", trans_id,
                                controlling,
                                prio_prflx(local_candidates[pairs[pair_idx].local_idx]),
                                controlling /\ pairs[pair_idx].nominated)])]

\* sweep_and_probe that goes on to the probe without remote credentials.
sweep_and_probe_blind(passed, queue1, now, trans_id) ==
    LET Possible(p) == is_still_possible(p, now)
    IN
    LetIn(SelectSeq(candidate_pairs, Possible), LAMBDA pairs1 :
      IF pairs1 = <<>> THEN [passed EXCEPT !.queue = queue1, !.pairs = pairs1]
      ELSE
      LetIn(next_pair(pairs1, now), LAMBDA idx :
        IF now >= next_binding_attempt(pairs1[idx], now)
        THEN LetIn(IF remote_credentials = None
                   THEN blind_binding_request(pairs1, now, idx, trans_id)
                   ELSE stun_client_binding_request(pairs1, now, idx, trans_id),
                   LAMBDA sent :
               [passed EXCEPT !.queue = queue1, !.pairs = sent.pairs,
                              !.transmit = sent.transmit, !.probed = TRUE])
        ELSE [passed EXCEPT !.queue = queue1, !.pairs = pairs1]))

\* The last steps of handle_timeout, on the result passed so far and the
\* request queue queue1 left: the sweep of failed pairs, the return without
\* remote credentials, and the probe, sent under transaction id trans_id.
sweep_and_probe(passed, queue1, now, trans_id) ==
    LET Possible(p) == is_still_possible(p, now)
    IN
    LetIn(SelectSeq(candidate_pairs, Possible), LAMBDA pairs1 :
      IF remote_credentials = None THEN [passed EXCEPT !.pairs = pairs1]
      ELSE IF pairs1 = <<>> THEN [passed EXCEPT !.queue = queue1, !.pairs = pairs1]
      ELSE
      LetIn(next_pair(pairs1, now), LAMBDA idx :
        IF now >= next_binding_attempt(pairs1[idx], now)
        THEN LetIn(stun_client_binding_request(pairs1, now, idx, trans_id),
                   LAMBDA sent :
               [passed EXCEPT !.queue = queue1, !.pairs = sent.pairs,
                              !.transmit = sent.transmit, !.probed = TRUE])
        ELSE [passed EXCEPT !.queue = queue1, !.pairs = pairs1]))

\* The steps of handle_timeout that follow last_now = Some(now), on the result
\* passed so far: the request queue, the nomination check, then sweep_and_probe.
tick_work(passed, now, trans_id, overflow_checks) ==
    LetIn(IF IsSome(remote_credentials) THEN drop_stale(stun_server_queue, now)
          ELSE stun_server_queue,
          LAMBDA queue1 :
      IF IsSome(remote_credentials) /\ queue1 # <<>>
      THEN LetIn(stun_server_handle_request(now, Head(queue1), overflow_checks),
                 LAMBDA served :
             [passed EXCEPT !.queue = Tail(queue1), !.panic = served.panic,
                            !.remotes = served.remotes, !.pairs = served.pairs,
                            !.sched = served.sched, !.transmit = served.transmit])
      ELSE IF /\ IsSome(scheduled_nomination_check)
              /\ now >= Get(scheduled_nomination_check)
      THEN [passed EXCEPT !.queue = queue1,
                          !.sched = None,
                          !.pairs = attempt_nomination(candidate_pairs)]
      ELSE sweep_and_probe(passed, queue1, now, trans_id))

\* The result of handle_timeout so far when it reaches the pacing test: the
\* state is Checking, nothing else has changed.
tick_start ==
    LET started == IF state = "New" THEN set_connection_state("Checking")
                   ELSE [state |-> state, events |-> events]
    IN [panic |-> None,
        state |-> started.state,
        events |-> started.events,
        last_now |-> last_now, queue |-> stun_server_queue,
        remotes |-> remote_candidates, pairs |-> candidate_pairs,
        sched |-> scheduled_nomination_check, transmit |-> transmit,
        probed |-> FALSE]

\* handle_timeout without the test against last_now + Ta.
handle_timeout_unpaced(now, trans_id, overflow_checks) ==
    tick_work([tick_start EXCEPT !.last_now = Some(now)], now, trans_id, overflow_checks)

\* The result of handle_timeout(now); trans_id is the transaction id a probe
\* sent by this tick gets.
handle_timeout(now, trans_id, overflow_checks) ==
    IF IsSome(last_now) /\ now < Get(last_now) + TIMING_ADVANCE THEN tick_start
    ELSE tick_work([tick_start EXCEPT !.last_now = Some(now)], now, trans_id,
                   overflow_checks)

\* smallest that returns its first argument: poll_timeout then looks at the
\* pairs only, not at the scheduled nomination check.
smallest_is_first(t1, t2) == t1

smallest(t1, t2) ==
    IF t1 = None THEN t2
    ELSE IF t2 = None THEN t1
    ELSE IF Get(t1) < Get(t2) THEN t1 ELSE t2

\* poll_timeout without the step that holds the result at last_now + Ta.
poll_timeout_unclamped ==
    IF last_now = None THEN None
    ELSE LET times == {next_binding_attempt(candidate_pairs[i], Get(last_now)) :
                          i \in 1..Len(candidate_pairs)}
         IN smallest(IF times = {} THEN None ELSE Some(MinOf(times)),
                     scheduled_nomination_check)

\* The value poll_timeout returns.
poll_timeout ==
    IF last_now = None THEN None
    ELSE LET ln == Get(last_now)
             times == {next_binding_attempt(candidate_pairs[i], ln) :
                          i \in 1..Len(candidate_pairs)}
             maybe_binding == IF times = {} THEN None ELSE Some(MinOf(times))
             maybe_next == smallest(maybe_binding, scheduled_nomination_check)
         IN IF IsSome(maybe_next) /\ Get(maybe_next) < ln + TIMING_ADVANCE
            THEN Some(ln + TIMING_ADVANCE)
            ELSE maybe_next

-----------------------------------------------------------------------------
(* The host: the calls it makes and the inputs it passes *)

\* Candidates the host adds: a host address, the same address learned again
\* from a STUN server, a server-reflexive address behind it, an IPv6 host.
LocalInputs ==
    {Host(1), ServerReflexive(1, 1), ServerReflexive(2, 1)}

\* Remote candidates, as signalled (with their priority).
RemoteCandidate(kind, addr, found) ==
    Candidate(kind, addr, addr, None, 1, found, Some(PrioOf(kind, 65535, 1)))
RemoteInputs ==
    {RemoteCandidate("ServerReflexive", 3, "r1"), RemoteCandidate("Host", 3, "r2")}

RemoteCredentials == {[username |-> "R", password |-> "Rpwd"]}

\* How far the host's clock moves before a call.
TimeSteps == {25, 50}

\* Binding requests from the peer (transaction id 9): the well-formed ones, with
\* and without USE-CANDIDATE, one wrong in each credential, and one without
\* the PRIORITY attribute.
ValidRequest(uc) ==
    BindingRequest("L", "R", "Lpwd", 9, ~uc, PrioOf("PeerReflexive", 65535, 1), uc)
RequestInputs ==
    {ValidRequest(uc) : uc \in BOOLEAN}
    \cup {[ValidRequest(FALSE) EXCEPT !.left = "X"],
          [ValidRequest(FALSE) EXCEPT !.right = "X"],
          [ValidRequest(FALSE) EXCEPT !.key = "Rpwd"],
          [ValidRequest(FALSE) EXCEPT !.prio = None]}

\* Binding success responses: to a probe of ours (1..MaxTrans) or to none (0),
\* mapping our host address or the address a NAT shows, and one badly signed.
ResponseInputs ==
    {Reply(id, mapped, "Rpwd") : id \in 0..MaxTrans, mapped \in {1, 2}}
    \cup {Reply(1, 1, "Lpwd")}

\* Datagrams: requests from 3 or 4 to our host address 1 or to 2, where no host
\* candidate is; responses; and one that is not STUN.
ReceiveInputs ==
    {[source |-> src, destination |-> dst, contents |-> Some(m)] :
        src \in {3, 4}, dst \in {1, 2}, m \in RequestInputs}
    \cup {[source |-> 3, destination |-> 1, contents |-> Some(m)] : m \in ResponseInputs}
    \cup {[source |-> 3, destination |-> 1, contents |-> None]}

\* How far the host's clock moves before handle_receive.
ReceiveSteps == {0}

\* set_last_now is called with the Instant of the host's last call.
LastNowSteps == {0}

Init ==
    /\ last_now = None
    /\ remote_credentials = None
    /\ controlling = FALSE
    /\ state = "New"
    /\ local_candidates = <<>>
    /\ remote_candidates = <<>>
    /\ candidate_pairs = <<>>
    /\ transmit = <<>>
    /\ events = <<>>
    /\ stun_server_queue = <<>>
    /\ scheduled_nomination_check = None
    /\ max_candidate_pairs = None
    /\ panicked = None
    /\ clock = 0
    /\ trans_count = 0
    /\ early_request = FALSE
    /\ last_added = None
    /\ deadline = None

SetRemoteCredentials(r) ==
    /\ panicked = None
    /\ remote_credentials' = Some(r)
    /\ last_added' = None
    /\ UNCHANGED <<last_now, controlling, state, local_candidates, remote_candidates,
                   candidate_pairs, transmit, events, stun_server_queue,
                   scheduled_nomination_check, max_candidate_pairs, panicked, clock,
                   trans_count, early_request, deadline>>

\* set_last_now(now), a step of d after the host's last call.
SetLastNow(d) ==
    /\ panicked = None
    /\ clock' = clock + d
    /\ last_now' = Some(clock')
    /\ last_added' = None
    /\ UNCHANGED <<remote_credentials, controlling, state, local_candidates,
                   remote_candidates, candidate_pairs, transmit, events,
                   stun_server_queue, scheduled_nomination_check,
                   max_candidate_pairs, panicked, trans_count, early_request, deadline>>

\* The value set_controlling(v) leaves in the controlling flag.
set_controlling(v) == v

SetControlling(v) ==
    /\ panicked = None
    /\ controlling' = set_controlling(v)
    /\ last_added' = None
    /\ UNCHANGED <<last_now, remote_credentials, state, local_candidates,
                   remote_candidates, candidate_pairs, transmit, events,
                   stun_server_queue, scheduled_nomination_check,
                   max_candidate_pairs, panicked, clock, trans_count,
                                  early_request, deadline>>

\* The builds, with and without overflow checks. On adding a local candidate
\* they part only where the local preference overflows or the priority of a
\* pair of the candidate can.
OverflowChecks(c) ==
    IF \/ local_preference_overflows(local_candidates, c)
       \/ prio(set_local_preference(c, local_preference_for(local_candidates, c)))
            = U32Max
    THEN BOOLEAN ELSE {TRUE}

\* On the other calls they part only where the priority of a pair can
\* overflow, which takes a local candidate of priority u32::MAX.
PairOverflowChecks ==
    IF \E i \in 1..Len(local_candidates) : prio(local_candidates[i]) = U32Max
    THEN BOOLEAN ELSE {TRUE}

AddLocalCandidate(c) ==
    \E overflow_checks \in OverflowChecks(c) :
    \E r \in {add_local_candidate(c, overflow_checks)} :
       /\ panicked = None
       /\ panicked' = r.panic
       /\ local_candidates' = r.locals
       /\ candidate_pairs' = r.pairs
       /\ events' = r.events
       /\ last_added' = Some([side |-> "local", cand |-> c])
       /\ UNCHANGED <<last_now, remote_credentials, controlling, state,
                      remote_candidates, transmit, stun_server_queue,
                      scheduled_nomination_check, max_candidate_pairs,
                      clock, trans_count, early_request, deadline>>

AddRemoteCandidate(c) ==
    \E overflow_checks \in PairOverflowChecks :
    \E r \in {add_remote_candidate(c, overflow_checks)} :
       /\ panicked = None
       /\ panicked' = r.panic
       /\ remote_candidates' = r.remotes
       /\ candidate_pairs' = r.pairs
       /\ last_added' = Some([side |-> "remote", cand |-> c])
       /\ UNCHANGED <<last_now, remote_credentials, controlling, state,
                      local_candidates, transmit, events, stun_server_queue,
                      scheduled_nomination_check, max_candidate_pairs,
                      clock, trans_count, early_request, deadline>>

InvalidateCandidate(c) ==
    \E r \in {invalidate_candidate(c)} :
       /\ panicked = None
       /\ local_candidates' = r.locals
       /\ candidate_pairs' = r.pairs
       /\ last_added' = None
       /\ UNCHANGED <<last_now, remote_credentials, controlling, state,
                      remote_candidates, transmit, events, stun_server_queue,
                      scheduled_nomination_check, max_candidate_pairs, panicked,
                      clock, trans_count, early_request, deadline>>

\* A Binding request that passes every check of accepts_message that does not
\* need the remote credentials.
is_valid_request(receive) ==
    /\ IsSome(receive.contents)
    /\ is_binding_request(Get(receive.contents))
    /\ IsSome(Get(receive.contents).prio)
    /\ split_username(Get(receive.contents))[1] = local_credentials.username
    /\ check_integrity(Get(receive.contents), local_credentials.password)

HandleReceive(d, receive) ==
    \E overflow_checks \in PairOverflowChecks :
    \E r \in {handle_receive(clock + d, receive, overflow_checks)} :
       /\ panicked = None
       /\ clock' = clock + d
       /\ panicked' = r.panic
       /\ local_candidates' = r.locals
       /\ remote_candidates' = r.remotes
       /\ candidate_pairs' = r.pairs
       /\ scheduled_nomination_check' = r.sched
       /\ transmit' = r.transmit
       /\ stun_server_queue' = r.queue
       /\ early_request' =
            (early_request \/ (remote_credentials = None /\ is_valid_request(receive)))
       /\ last_added' = None
       /\ UNCHANGED <<last_now, remote_credentials, controlling, state, events,
                      max_candidate_pairs, trans_count, deadline>>

HandleTimeout(d) ==
    \E overflow_checks \in PairOverflowChecks :
    \E r \in {handle_timeout(clock + d, trans_count + 1, overflow_checks)} :
       /\ panicked = None
       /\ clock' = clock + d
       /\ panicked' = r.panic
       /\ state' = r.state
       /\ events' = r.events
       /\ last_now' = r.last_now
       /\ stun_server_queue' = r.queue
       /\ remote_candidates' = r.remotes
       /\ candidate_pairs' = r.pairs
       /\ scheduled_nomination_check' = r.sched
       /\ transmit' = r.transmit
       /\ trans_count' = IF r.probed THEN trans_count + 1 ELSE trans_count
       /\ last_added' = None
       /\ UNCHANGED <<remote_credentials, controlling, local_candidates,
                      max_candidate_pairs, early_request, deadline>>

\* VecDeque::pop_back in pop_front's place.
pop_back(queue) ==
    IF queue = <<>> THEN [ret |-> None, queue |-> queue]
    ELSE [ret |-> Some(queue[Len(queue)]), queue |-> SubSeq(queue, 1, Len(queue) - 1)]

\* VecDeque::pop_front: the value returned and the queue left.
pop_front(queue) ==
    IF queue = <<>> THEN [ret |-> None, queue |-> queue]
    ELSE [ret |-> Some(Head(queue)), queue |-> Tail(queue)]

PollTransmit ==
    /\ panicked = None
    /\ transmit' = pop_front(transmit).queue
    /\ UNCHANGED <<last_now, remote_credentials, controlling, state,
                   local_candidates, remote_candidates, candidate_pairs, events,
                   stun_server_queue, scheduled_nomination_check,
                   max_candidate_pairs, panicked, clock, trans_count, early_request,
               last_added, deadline>>

PollEvent ==
    /\ panicked = None
    /\ events' = pop_front(events).queue
    /\ UNCHANGED <<last_now, remote_credentials, controlling, state,
                   local_candidates, remote_candidates, candidate_pairs, transmit,
                   stun_server_queue, scheduled_nomination_check,
                   max_candidate_pairs, panicked, clock, trans_count, early_request,
               last_added, deadline>>

\* poll_timeout takes &mut self and changes nothing.
PollTimeout ==
    /\ panicked = None
    /\ UNCHANGED vars

-----------------------------------------------------------------------------
(* Specifications: the agent under hosts that differ in what they pass in *)

\* Both output queues are empty: the host has polled everything out.
Drained == transmit = <<>> /\ events = <<>>

\* The calls of a host h: it stays within h.bounds, adds the local candidates
\* h.locals and the remote candidates h.remotes, invalidates h.invalidated,
\* sets the roles h.roles, delivers the datagrams h.receives after a clock step
\* of h.receive_steps, ticks after a clock step of h.time_steps, and, if h.drain
\* is set, polls both output queues empty before its next call.
NextOver(h) ==
    \/ \E r \in RemoteCredentials :
        (h.drain => Drained) /\ SetRemoteCredentials(r) /\ Within(h.bounds)'
    \/ \E v \in h.roles :
        (h.drain => Drained) /\ SetControlling(v) /\ Within(h.bounds)'
    \/ \E c \in h.locals :
        (h.drain => Drained) /\ AddLocalCandidate(c) /\ Within(h.bounds)'
    \/ \E c \in h.remotes :
        (h.drain => Drained) /\ AddRemoteCandidate(c) /\ Within(h.bounds)'
    \/ \E c \in h.invalidated :
        (h.drain => Drained) /\ InvalidateCandidate(c) /\ Within(h.bounds)'
    \/ \E d \in h.receive_steps, receive \in h.receives :
        (h.drain => Drained) /\ HandleReceive(d, receive) /\ Within(h.bounds)'
    \/ \E d \in h.time_steps :
        (h.drain => Drained) /\ HandleTimeout(d) /\ Within(h.bounds)'
    \/ \E d \in h.last_now_steps :
        (h.drain => Drained) /\ SetLastNow(d) /\ Within(h.bounds)'
    \/ PollTransmit
    \/ PollEvent
    \/ PollTimeout

-----------------------------------------------------------------------------
\* The STUN paths and the timer: one host candidate, one remote candidate, a peer
\* at the remote candidate's address sending every kind of datagram.
MainHost ==
    [bounds |-> Bounds, drain |-> TRUE,
     locals |-> {Host(1)}, invalidated |-> {Host(1)},
     remotes |-> {RemoteCandidate("Host", 3, "r2")},
     roles |-> BOOLEAN,
     receives |-> {r \in ReceiveInputs : r.source = 3},
     receive_steps |-> ReceiveSteps,
     time_steps |-> TimeSteps,
     last_now_steps |-> LastNowSteps]

Next == NextOver(MainHost)

Spec == Init /\ [][Next]_vars

\* Candidates and the checklist: two local and two remote candidates on one
\* address each, a known and an unknown peer sending Binding requests, one tick.
CandTimeSteps == {100}
CandHost ==
    [bounds |-> Bounds, drain |-> TRUE,
     locals |-> {Host(1), ServerReflexive(1, 1)},
     invalidated |-> {Host(1), ServerReflexive(1, 1)},
     remotes |-> RemoteInputs,
     roles |-> BOOLEAN,
     receives |-> {[source |-> src, destination |-> 1,
                    contents |-> Some(ValidRequest(FALSE))] : src \in {3, 4}},
     receive_steps |-> ReceiveSteps,
     time_steps |-> CandTimeSteps,
     last_now_steps |-> LastNowSteps]

NextCand == NextOver(CandHost)

SpecCand == Init /\ [][NextCand]_vars

\* A full checklist: the host picks its role, then adds FullRemotes remote
\* candidates (addresses 101, 102, .., of falling priority), then its own
\* FullLocals host candidates (11, 12, ..), of which it may invalidate the first,
\* and once DefaultMaxCandidatePairs pairs are listed a peer unknown so far (99)
\* sends a Binding request.
FullLocals == 2
FullRemotes == 51
FullBounds ==
    [local |-> FullLocals, remote |-> FullRemotes + 1, time |-> 0,
     transmit |-> 1, events |-> 1, trans |-> 0, requests |-> 1]
FullRemoteCandidate(n) ==
    Candidate("Host", 100 + n, 100 + n, None, 1, "r",
              Some(PrioOf("Host", 65535 - n, 1)))
FullRequest ==
    [source |-> 99, destination |-> 12, contents |-> Some(ValidRequest(FALSE))]

NextFull ==
    \/ \E r \in RemoteCredentials :
        Drained /\ SetRemoteCredentials(r) /\ Within(FullBounds)'
    \/ \E v \in BOOLEAN :
        /\ Drained /\ local_candidates = <<>> /\ remote_candidates = <<>>
        /\ SetControlling(v) /\ Within(FullBounds)'
    \/ /\ Drained /\ Len(remote_candidates) >= FullRemotes
       /\ AddLocalCandidate(Host(10 + Len(local_candidates) + 1))
       /\ Within(FullBounds)'
    \/ /\ Drained
       /\ AddRemoteCandidate(FullRemoteCandidate(Len(remote_candidates) + 1))
       /\ Within(FullBounds)'
    \/ /\ Drained /\ Len(local_candidates) = 1
       /\ InvalidateCandidate(Host(11)) /\ Within(FullBounds)'
    \/ /\ Drained /\ Len(candidate_pairs) >= DefaultMaxCandidatePairs
       /\ HandleReceive(0, FullRequest) /\ Within(FullBounds)'
    \/ Drained /\ HandleTimeout(0) /\ Within(FullBounds)'
    \/ Drained /\ SetLastNow(0) /\ Within(FullBounds)'
    \/ PollTransmit
    \/ PollEvent
    \/ PollTimeout

SpecFull == Init /\ [][NextFull]_vars

\* The output queues: the host of Spec with one well-formed Binding request to
\* deliver and ticks Ta apart, which polls when it likes.
QueueTimeSteps == {50}
QueueHost ==
    [MainHost EXCEPT !.drain = FALSE,
                     !.receives = {[source |-> 3, destination |-> 1,
                                    contents |-> Some(ValidRequest(FALSE))]},
                     !.time_steps = QueueTimeSteps]

NextQueue == NextOver(QueueHost)

SpecQueue == Init /\ [][NextQueue]_vars

\* Progress: the host of Spec with the well-formed Binding requests to deliver,
\* which goes on to set the remote credentials, to tick and to poll for as long
\* as the agent lets it.
LiveHost ==
    [MainHost EXCEPT !.receives = {[source |-> 3, destination |-> 1,
                                    contents |-> Some(ValidRequest(uc))] :
                                   uc \in BOOLEAN},
                     !.time_steps = QueueTimeSteps]

NextLive == NextOver(LiveHost)

SpecLive ==
    /\ Init
    /\ [][NextLive]_vars
    /\ WF_vars(\E r \in RemoteCredentials : Drained /\ SetRemoteCredentials(r))
    /\ WF_vars(\E d \in QueueTimeSteps :
                  Drained /\ HandleTimeout(d) /\ Within(Bounds)')
    /\ WF_vars(PollTransmit)
    /\ WF_vars(PollEvent)

\* Local candidates of every origin: the host candidate 1, reflexive candidates
\* of base 1 as the host adds them (the peer-reflexive one as the tests do), and
\* the peer-reflexive candidate a Binding response that maps address 2 makes
\* the agent append by itself.
PeerReflexiveLocal(addr, base) ==
    Candidate("PeerReflexive", addr, base, None, 1, "prflx", None)
ManyLocals ==
    {Host(1), ServerReflexive(1, 1), ServerReflexive(2, 1), PeerReflexiveLocal(1, 1)}
LocalHost ==
    [MainHost EXCEPT !.locals = ManyLocals,
                     !.invalidated = {Host(1), ServerReflexive(2, 1)},
                     !.roles = {TRUE},
                     !.receives = {[source |-> 3, destination |-> 1,
                                    contents |-> Some(Reply(1, 2, "Rpwd"))]},
                     !.time_steps = QueueTimeSteps]

NextLocal == NextOver(LocalHost)

SpecLocal == Init /\ [][NextLocal]_vars

\* Preferences and admission: host candidates on two IPv4 and two IPv6
\* addresses and candidates of component 2, each side added up to PrefLocals
\* times, a datagram that is not STUN.
PrefLocals == 4
PrefBounds == [Bounds EXCEPT !.local = PrefLocals]
Component2(c) == [c EXCEPT !.comp = 2]
PrefHost ==
    [MainHost EXCEPT !.bounds = PrefBounds,
                     !.locals = {Host(1), Host(2), Host(6), Host(7),
                                 Component2(Host(2))},
                     !.invalidated = {Host(1)},
                     !.remotes = {RemoteCandidate("Host", 3, "r2"),
                                  Component2(RemoteCandidate("Host", 3, "r2"))},
                     !.roles = {TRUE},
                     !.receives = {[source |-> 3, destination |-> 1,
                                    contents |-> None]},
                     !.time_steps = CandTimeSteps]

NextPref == NextOver(PrefHost)

SpecPref == Init /\ [][NextPref]_vars

\* Probing: two host candidates and two remote candidates of different
\* addresses, so up to four pairs, a controlling agent, ticks 100 ms and one
\* initial RTO apart up to MaxProbes probes, and the response to the first probe.
MaxProbes == 3
ProbeTime == 700
ProbeTimeSteps == {100, 500}
ProbeBounds == [Bounds EXCEPT !.local = 2, !.time = ProbeTime, !.trans = MaxProbes]
ProbeHost ==
    [MainHost EXCEPT !.bounds = ProbeBounds,
                     !.locals = {Host(1), Host(2)},
                     !.invalidated = {Host(2)},
                     !.remotes = {RemoteCandidate("Host", 3, "r2"),
                                  RemoteCandidate("ServerReflexive", 4, "r1")},
                     !.roles = {TRUE},
                     !.receives = {[source |-> 3, destination |-> 1,
                                    contents |-> Some(Reply(1, 1, "Rpwd"))]},
                     !.time_steps = ProbeTimeSteps]

NextProbe == NextOver(ProbeHost)

SpecProbe == Init /\ [][NextProbe]_vars

\* Peers: two host candidates of different addresses, a remote candidate at 3,
\* and Binding requests to the first host candidate from the peer at 3 and
\* from a peer at 4, of which no remote candidate tells.
PeerHost ==
    [MainHost EXCEPT !.locals = {Host(1), Host(2)},
                     !.receives = {[source |-> src, destination |-> 1,
                                    contents |-> Some(ValidRequest(FALSE))] :
                                   src \in {3, 4}},
                     !.time_steps = CandTimeSteps]

NextPeer == NextOver(PeerHost)

SpecPeer == Init /\ [][NextPeer]_vars

\* Mapped addresses: a controlling agent with one host candidate and one
\* remote candidate, so one pair, probed up to MaxProbes times, and the
\* responses to the first two probes, each reporting a mapped address of its
\* own (2 and 4) that is no local candidate yet.
MappedBounds == [Bounds EXCEPT !.time = ProbeTime, !.trans = MaxProbes]
MappedHost ==
    [MainHost EXCEPT !.bounds = MappedBounds,
                     !.roles = {TRUE},
                     !.receives = {[source |-> 3, destination |-> 1,
                                    contents |-> Some(Reply(id, 2 * id, "Rpwd"))] :
                                   id \in {1, 2}},
                     !.time_steps = ProbeTimeSteps]

NextMapped == NextOver(MappedHost)

SpecMapped == Init /\ [][NextMapped]_vars

\* Nomination: a controlling agent with one host candidate and two remote
\* candidates, so two pairs, the peers at both remote addresses sending Binding
\* requests and answering the first two probes, ticks 100 ms and one initial
\* RTO apart.
NomHost ==
    [MainHost EXCEPT !.bounds = ProbeBounds,
                     !.remotes = {RemoteCandidate("Host", 3, "r2"),
                                  RemoteCandidate("ServerReflexive", 4, "r1")},
                     !.roles = {TRUE},
                     !.receives =
                        {[source |-> src, destination |-> 1,
                          contents |-> Some(ValidRequest(FALSE))] : src \in {3, 4}}
                        \cup {[source |-> 3, destination |-> 1,
                               contents |-> Some(Reply(id, 1, "Rpwd"))] : id \in {1, 2}},
                     !.time_steps = ProbeTimeSteps]

NextNom == NextOver(NomHost)

SpecNom == Init /\ [][NextNom]_vars

\* A host that drives the agent from poll_timeout: after a first tick of its
\* own it calls handle_timeout only at an instant poll_timeout returned. Other
\* calls can come between the poll and the tick, and the host may poll again
\* or tick at the instant it was given before them. It stops feeding the agent
\* one TIMING_ADVANCE before the end of the observed time, so that what it
\* scheduled last can still run.
PollBounds == ProbeBounds
PollInputBounds == [PollBounds EXCEPT !.time = ProbeTime - TIMING_ADVANCE]
PollHost ==
    [MainHost EXCEPT !.bounds = PollInputBounds,
                     !.roles = {TRUE},
                     !.receives = {[source |-> 3, destination |-> 1,
                                    contents |-> Some(ValidRequest(FALSE))]}
                                  \cup {[source |-> 3, destination |-> 1,
                                         contents |-> Some(Reply(id, 1, "Rpwd"))] :
                                        id \in {1, 2}},
                     !.time_steps = QueueTimeSteps]

FirstTick ==
    /\ last_now = None
    /\ \E d \in PollHost.time_steps :
          Drained /\ HandleTimeout(d) /\ Within(PollBounds)'

\* The host asks poll_timeout and keeps the answer.
PollDeadline ==
    /\ panicked = None
    /\ deadline' = poll_timeout
    /\ UNCHANGED <<last_now, remote_credentials, controlling, state,
                   local_candidates, remote_candidates, candidate_pairs, transmit,
                   events, stun_server_queue, scheduled_nomination_check,
                   max_candidate_pairs, panicked, clock, trans_count,
                   early_request, last_added>>

\* The instant the host was given has come: it calls handle_timeout there,
\* whatever other calls it made since it asked.
PollTick ==
    /\ IsSome(deadline)
    /\ Get(deadline) >= clock
    /\ Drained
    /\ \E overflow_checks \in PairOverflowChecks :
       \E r \in {handle_timeout(Get(deadline), trans_count + 1, overflow_checks)} :
          /\ panicked = None
          /\ clock' = Get(deadline)
          /\ panicked' = r.panic
          /\ state' = r.state
          /\ events' = r.events
          /\ last_now' = r.last_now
          /\ stun_server_queue' = r.queue
          /\ remote_candidates' = r.remotes
          /\ candidate_pairs' = r.pairs
          /\ scheduled_nomination_check' = r.sched
          /\ transmit' = r.transmit
          /\ trans_count' = IF r.probed THEN trans_count + 1 ELSE trans_count
          /\ last_added' = None
          /\ deadline' = None
          /\ UNCHANGED <<remote_credentials, controlling, local_candidates,
                         max_candidate_pairs, early_request>>
    /\ Within(PollBounds)'

NextPoll ==
    \/ \E r \in RemoteCredentials :
        Drained /\ SetRemoteCredentials(r) /\ Within(PollHost.bounds)'
    \/ \E v \in PollHost.roles :
        Drained /\ SetControlling(v) /\ Within(PollHost.bounds)'
    \/ \E c \in PollHost.locals :
        Drained /\ AddLocalCandidate(c) /\ Within(PollHost.bounds)'
    \/ \E c \in PollHost.remotes :
        Drained /\ AddRemoteCandidate(c) /\ Within(PollHost.bounds)'
    \/ \E c \in PollHost.invalidated :
        Drained /\ InvalidateCandidate(c) /\ Within(PollHost.bounds)'
    \/ \E d \in PollHost.receive_steps, receive \in PollHost.receives :
        Drained /\ HandleReceive(d, receive) /\ Within(PollHost.bounds)'
    \/ FirstTick
    \/ PollDeadline
    \/ PollTick
    \/ PollTransmit
    \/ PollEvent

SpecPoll ==
    /\ Init
    /\ [][NextPoll]_vars
    /\ WF_vars(FirstTick)
    /\ WF_vars(PollDeadline)
    /\ WF_vars(PollTick)
    /\ WF_vars(PollTransmit)
    /\ WF_vars(PollEvent)

\* A host with IPv4 and IPv6 candidates on both sides, a server-reflexive
\* local candidate on the base of a host candidate, and no message received.
FamilyHost ==
    [MainHost EXCEPT !.locals = {Host(1), ServerReflexive(2, 1), Host(6)},
                     !.invalidated = {Host(1), ServerReflexive(2, 1)},
                     !.remotes = {RemoteCandidate("Host", 3, "r2"),
                                  RemoteCandidate("Host", 7, "r3")},
                     !.roles = {TRUE},
                     !.receives = {[source |-> 3, destination |-> 1,
                                    contents |-> None]},
                     !.time_steps = CandTimeSteps]

NextFamily == NextOver(FamilyHost)

SpecFamily == Init /\ [][NextFamily]_vars

-----------------------------------------------------------------------------
(* Properties of the candidate lists and the checklist *)

\* C1: after any sequence of calls no two local candidates that are both
\* non-discarded have the same (addr, base).
C1_NoRedundantLocals ==
    \A i, j \in 1..Len(local_candidates) :
        (/\ i # j
         /\ ~local_candidates[i].discarded
         /\ ~local_candidates[j].discarded)
        => <<local_candidates[i].addr, local_candidates[i].base>>
             # <<local_candidates[j].addr, local_candidates[j].base>>

\* The (base of the local candidate, addr of the remote candidate) of a pair.
pair_key(p) ==
    <<local_candidates[p.local_idx].base, remote_candidates[p.remote_idx].addr>>

\* C2: the checklist holds at most one pair for each combination of the base of
\* the pair's local candidate and the addr of the pair's remote candidate.
C2_OnePairPerBaseAndAddr ==
    \A i, j \in 1..Len(candidate_pairs) :
        i # j => pair_key(candidate_pairs[i]) # pair_key(candidate_pairs[j])

\* C3: the checklist never holds more pairs than max_candidate_pairs (100 when
\* not configured), also after handle_receive created a pair for a Binding
\* request.
C3_ChecklistWithinLimit ==
    Len(candidate_pairs) <= pair_limit(max_candidate_pairs)

\* C4: after every operation the checklist is ordered by descending pair
\* priority.
C4_ChecklistSorted ==
    \A i \in 1..(Len(candidate_pairs) - 1) :
        PrioGeq(candidate_pairs[i].prio, candidate_pairs[i + 1].prio)

\* A pair created for a Binding request of a peer unknown before stands in the
\* checklist ahead of a pair of lower priority that pair formation made.
C4_Witness ==
    \E i \in 1..(Len(candidate_pairs) - 1) :
        /\ remote_candidates[candidate_pairs[i].remote_idx].found
             = REMOTE_PEER_REFLEXIVE_TEMP_FOUNDATION
        /\ candidate_pairs[i].remote_binding_requests > 0
        /\ candidate_pairs[i + 1].remote_binding_requests = 0
        /\ PrioLess(candidate_pairs[i + 1].prio, candidate_pairs[i].prio)

-----------------------------------------------------------------------------
(* Properties of handle_receive, handle_timeout and the polls *)

\* The message of the one abort allowed: a Binding request whose destination
\* is no Host or Relayed local candidate.
ConfigFault == Some("config error")

\* C5: handle_receive and handle_timeout never abort, whatever the datagram and
\* the state of the agent, also for a STUN message that arrives while no remote
\* credentials are set; the only abort allowed is the config fault.
C5_NoAbortButConfigFault == panicked = None \/ panicked = ConfigFault

\* C6: handle_receive of a valid Binding request while the remote credentials
\* are not set appends the request to the server request queue, produces no
\* Transmit and creates no remote candidate and no pair.
C6_EarlyRequestQueued ==
    [][\A d \in ReceiveSteps, receive \in ReceiveInputs :
          (/\ remote_credentials = None
           /\ is_valid_request(receive)
           /\ HandleReceive(d, receive))
          => /\ stun_server_queue'
                  = Append(stun_server_queue,
                           StunRequest(clock', receive.source, receive.destination,
                                       Get(receive.contents)))
             /\ transmit' = transmit
             /\ remote_candidates' = remote_candidates
             /\ candidate_pairs' = candidate_pairs]_vars

\* A Binding success response to the peer's request waits in the transmit queue.
request_answered ==
    \E i \in 1..Len(transmit) :
        /\ is_successful_binding_response(transmit[i].contents)
        /\ transmit[i].contents.trans_id = ValidRequest(FALSE).trans_id

\* C7: a valid Binding request delivered before set_remote_credentials is
\* answered once the credentials are set and a tick passes pacing: that tick
\* appends a Binding success response for it to the transmit queue.
C7_EarlyRequestAnswered == early_request ~> request_answered

\* The earliest next_binding_attempt over the pairs and the scheduled nomination
\* check, or None when there is neither.
next_deadline ==
    LET times == {next_binding_attempt(candidate_pairs[i], Get(last_now)) :
                     i \in 1..Len(candidate_pairs)}
                 \cup {Get(scheduled_nomination_check) : x \in
                          {y \in {0} : IsSome(scheduled_nomination_check)}}
    IN IF times = {} THEN None ELSE Some(MinOf(times))

\* Some pair is due for a probe at Instant t.
pair_due(t) ==
    \E i \in 1..Len(candidate_pairs) : next_binding_attempt(candidate_pairs[i], t) <= t

\* With a pair or a scheduled nomination check, poll_timeout returns
\* max(last_now + Ta, earliest deadline); it never returns a value earlier than
\* last_now + Ta.
poll_timeout_clamped ==
    /\ (IsSome(last_now) /\ IsSome(next_deadline))
         => poll_timeout
              = Some(Max2(Get(last_now) + TIMING_ADVANCE, Get(next_deadline)))
    /\ IsSome(poll_timeout) => Get(poll_timeout) >= Get(last_now) + TIMING_ADVANCE

\* C8 as stated: poll_timeout returns None if handle_timeout has never run
\* (the state is New until its first call), is clamped as poll_timeout_clamped
\* says, and after any handle_timeout(t0) that leaves a pair due it returns
\* exactly t0 + Ta.
C8_PollTimeoutAfterAnyTick ==
    /\ [](state = "New" => poll_timeout = None)
    /\ []poll_timeout_clamped
    /\ [][\A d \in TimeSteps :
             (HandleTimeout(d) /\ panicked' = None /\ pair_due(clock)')
             => poll_timeout' = Some(clock' + TIMING_ADVANCE)]_vars

\* C8, amended: poll_timeout returns None while last_now is unset (neither
\* handle_timeout nor set_last_now has run), is clamped as poll_timeout_clamped
\* says, and after a handle_timeout(t0) that passes pacing (t0 becomes
\* last_now) and leaves a pair due it returns exactly t0 + Ta.
C8_PollTimeout ==
    /\ [](last_now = None => poll_timeout = None)
    /\ []poll_timeout_clamped
    /\ [][\A d \in TimeSteps :
             (/\ HandleTimeout(d)
              /\ panicked' = None
              /\ last_now' = Some(clock')
              /\ pair_due(clock)')
             => poll_timeout' = Some(clock' + TIMING_ADVANCE)]_vars

\* The last tick passed pacing and left a pair due, so the earliest deadline
\* lies before last_now + Ta and poll_timeout returns last_now + Ta.
C8_Witness ==
    /\ state # "New"
    /\ last_now = Some(clock)
    /\ pair_due(clock)
    /\ Get(next_deadline) < clock + TIMING_ADVANCE
    /\ poll_timeout = Some(clock + TIMING_ADVANCE)

\* A queue changes by losing its head or by gaining elements at its tail.
fifo_step(before, after) ==
    \/ after = before
    \/ before # <<>> /\ after = Tail(before)
    \/ Len(after) > Len(before) /\ SubSeq(after, 1, Len(before)) = before

\* C9: poll_transmit returns Transmits in the order they were appended and
\* poll_event returns events in the order they were appended: each poll takes
\* the oldest element, and every other call only appends.
C9_PollsInOrder ==
    [][/\ fifo_step(transmit, transmit')
       /\ fifo_step(events, events')
       /\ (PollTransmit /\ transmit # <<>>) => transmit' = Tail(transmit)
       /\ (PollEvent /\ events # <<>>) => events' = Tail(events)]_vars

\* The response a handle_receive call appended waits ahead of the probe a later
\* handle_timeout call appended.
C9_Witness ==
    /\ Len(transmit) >= 2
    /\ is_successful_binding_response(transmit[1].contents)
    /\ is_binding_request(transmit[2].contents)

\* C10: once handle_timeout has run, set_controlling does not change the
\* controlling flag.
C10_RoleFixedAfterFirstTick ==
    [][state # "New" => controlling' = controlling]_vars

-----------------------------------------------------------------------------
(* Properties of add_local_candidate, add_remote_candidate, invalidate_candidate *)

\* The candidate c as add_local_candidate would hold it: with the local
\* preference the call assigns in the current state.
as_added(c) == set_local_preference(c, local_preference_for(local_candidates, c))

\* The non-discarded local candidates of the (addr, base) of c.
live_redundant(c) ==
    {i \in 1..Len(local_candidates) :
        /\ ~local_candidates[i].discarded
        /\ local_candidates[i].addr = c.addr
        /\ local_candidates[i].base = c.base}

\* C11: add_local_candidate of a candidate whose (addr, base) is that of an
\* existing non-discarded local candidate of higher priority returns false and
\* leaves the local candidates, the checklist and the event queue unchanged.
C11_RedundantLowerRejected ==
    [][\A c \in LocalInputs :
          (/\ \E i \in live_redundant(c) :
                 prio(as_added(c)) < prio(local_candidates[i])
           /\ AddLocalCandidate(c))
          => /\ ~add_local_candidate(c, TRUE).ret
             /\ UNCHANGED <<local_candidates, candidate_pairs, events>>]_vars

\* C12: add_local_candidate of a candidate redundant with an existing
\* non-discarded local candidate of lower priority (and with none of higher
\* priority) returns true, marks the older candidate discarded, removes every
\* pair of the older candidate and appends the new candidate; afterwards every
\* pair of that base references the new candidate.
C12_RedundantHigherReplaces ==
    [][\A c \in LocalInputs :
          (/\ live_redundant(c) # {}
           /\ \A i \in live_redundant(c) :
                 prio(local_candidates[i]) < prio(as_added(c))
           /\ AddLocalCandidate(c))
          => /\ add_local_candidate(c, TRUE).ret
             /\ Len(local_candidates') = Len(local_candidates) + 1
             /\ local_candidates'[Len(local_candidates')] = as_added(c)
             /\ \A i \in 1..Len(local_candidates) :
                   local_candidates'[i]
                     = IF i \in live_redundant(c)
                       THEN set_discarded(local_candidates[i])
                       ELSE local_candidates[i]
             /\ \A k \in 1..Len(candidate_pairs') :
                   /\ candidate_pairs'[k].local_idx \notin live_redundant(c)
                   /\ local_candidates'[candidate_pairs'[k].local_idx].base = c.base
                        => candidate_pairs'[k].local_idx = Len(local_candidates')]_vars

\* The local preferences of the candidates held before the step are kept.
preferences_kept ==
    /\ Len(local_candidates') >= Len(local_candidates)
    /\ \A i \in 1..Len(local_candidates) :
          local_candidates'[i].pref = local_candidates[i].pref

\* C13: add_local_candidate or add_remote_candidate called a second time with
\* the candidate the call before it was given leaves the checklist with the
\* same pairs and the local preferences of the held candidates as they were
\* after the first call.
C13_SecondAddKeepsPairs ==
    [][/\ \A c \in ManyLocals \cup LocalInputs :
            (/\ last_added = Some([side |-> "local", cand |-> c])
             /\ AddLocalCandidate(c))
            => candidate_pairs' = candidate_pairs /\ preferences_kept
       /\ \A c \in RemoteInputs :
            (/\ last_added = Some([side |-> "remote", cand |-> c])
             /\ AddRemoteCandidate(c))
            => candidate_pairs' = candidate_pairs /\ preferences_kept]_vars

\* The remote candidate was added twice in a row and is held twice, with the
\* one pair of the first call.
C13_Witness ==
    /\ IsSome(last_added) /\ Get(last_added).side = "remote"
    /\ Len(remote_candidates) = 2
    /\ remote_candidates[1] = Get(last_added).cand
    /\ remote_candidates[2] = Get(last_added).cand
    /\ Len(candidate_pairs) = 1
    /\ candidate_pairs[1].remote_idx = 1

\* Where the descending counter of a kind starts, as C14 lists it.
preference_start(kind) ==
    CASE kind = "Host" -> 65535
      [] kind = "PeerReflexive" -> 49151
      [] kind = "ServerReflexive" -> 32767
      [] kind = "Relayed" -> 16383

\* The local candidates already held of the kind and address family of c.
held_like(c) ==
    {i \in 1..Len(local_candidates) :
        /\ local_candidates[i].kind = c.kind
        /\ is_ipv4(local_candidates[i].addr) = is_ipv4(c.addr)}

\* The kinds are all Host and the addresses are IPv4, IPv6, IPv6, IPv4.
four_hosts_4664 ==
    /\ Len(local_candidates) = 4
    /\ \A i \in 1..4 : local_candidates[i].kind = "Host"
    /\ is_ipv4(local_candidates[1].addr) /\ is_ipv6(local_candidates[2].addr)
    /\ is_ipv6(local_candidates[3].addr) /\ is_ipv4(local_candidates[4].addr)

\* C14: a candidate add_local_candidate appends has the local preference
\* start(kind) - (1 if IPv4 else 0) - 2 * (number of local candidates held of
\* its kind and address family); four Host candidates added in the order IPv4,
\* IPv6, IPv6, IPv4 have the preferences 65534, 65535, 65533, 65532.
C14_LocalPreference ==
    /\ [](four_hosts_4664
            => [i \in 1..4 |-> local_candidates[i].pref]
                 = <<Some(65534), Some(65535), Some(65533), Some(65532)>>)
    /\ [][\A c \in ManyLocals \cup PrefHost.locals :
             (/\ last_added' = Some([side |-> "local", cand |-> c])
              /\ AddLocalCandidate(c)
              /\ add_local_candidate(c, TRUE).ret)
             => local_candidates'[Len(local_candidates')].pref
                  = Some(preference_start(c.kind)
                         - (IF is_ipv4(c.addr) THEN 1 ELSE 0)
                         - 2 * Cardinality(held_like(c)))]_vars

\* Four host candidates were added in the order IPv4, IPv6, IPv6, IPv4.
C14_Witness ==
    /\ four_hosts_4664
    /\ \A i \in 1..4 : ~local_candidates[i].discarded
    /\ local_candidates[4].pref = Some(65532)

\* C15: no two local candidates of the same kind and the same address family
\* hold the same local preference.  The preference of a candidate is what
\* Candidate::local_preference reports: the number add_local_candidate set
\* (agent.rs:319), and for a candidate never given one, as the peer-reflexive
\* candidate of agent.rs:1083 is, the default of its kind and family, the same
\* for every such candidate.
C15_PreferencesDiffer ==
    \A i, j \in 1..Len(local_candidates) :
        (/\ i # j
         /\ local_candidates[i].kind = local_candidates[j].kind
         /\ is_ipv4(local_candidates[i].addr) = is_ipv4(local_candidates[j].addr))
        => local_candidates[i].pref # local_candidates[j].pref

\* What the step appended to the event queue (nothing when it polled).
appended_events ==
    IF Len(events') >= Len(events)
    THEN SubSeq(events', Len(events) + 1, Len(events'))
    ELSE <<>>

\* The NewLocalCandidate events among them.
new_local_events ==
    SelectSeq(appended_events, LAMBDA e : e.type = "NewLocalCandidate")

\* C16: every add_local_candidate call that returns true appends exactly one
\* NewLocalCandidate event, of the candidate as added; a call that returns
\* false and every other operation append none.
C16_NewLocalCandidateEvent ==
    [][/\ \A c \in ManyLocals :
            (/\ last_added' = Some([side |-> "local", cand |-> c])
             /\ AddLocalCandidate(c))
            => new_local_events
                 = IF add_local_candidate(c, TRUE).ret
                   THEN <<[type |-> "NewLocalCandidate", cand |-> as_added(c)]>>
                   ELSE <<>>
       /\ (\A c \in ManyLocals :
             ~ (/\ last_added' = Some([side |-> "local", cand |-> c])
                /\ AddLocalCandidate(c)))
            => new_local_events = <<>>]_vars

\* The last call added a local candidate and its event waits in the queue.
C16_Witness ==
    /\ IsSome(last_added) /\ Get(last_added).side = "local"
    /\ local_candidates # <<>>
    /\ events = <<[type |-> "NewLocalCandidate",
                   cand |-> local_candidates[Len(local_candidates)]]>>

-----------------------------------------------------------------------------
(* Properties of the connection state *)

\* The IceConnectionStateChange events the step appended.
state_change_events ==
    SelectSeq(appended_events, LAMBDA e : e.type = "IceConnectionStateChange")

\* C17: the first handle_timeout moves the state from New to Checking and
\* appends exactly one IceConnectionStateChange(Checking) event; a state-change
\* event is appended only by a step that changes the state, and tells the new
\* state; no step returns the state to New.
C17_FirstTickStartsChecking ==
    [][/\ \A d \in TimeSteps :
            (state = "New" /\ HandleTimeout(d))
            => /\ state' = "Checking"
               /\ state_change_events
                    = <<[type |-> "IceConnectionStateChange", state |-> "Checking"]>>
       /\ state_change_events
            = IF state' # state
              THEN <<[type |-> "IceConnectionStateChange", state |-> state']>>
              ELSE <<>>
       /\ state # "New" => state' # "New"]_vars

\* The first tick has run and its event waits in the queue.
C17_Witness ==
    /\ state = "Checking"
    /\ IsSome(last_now)
    /\ events = <<[type |-> "IceConnectionStateChange", state |-> "Checking"]>>

-----------------------------------------------------------------------------
(* Properties of the admission of candidates *)

\* C18: add_remote_candidate of a candidate redundant with a remote candidate
\* already held (one of the same transport address) returns false and does not
\* add the candidate.
C18_RedundantRemoteRejected ==
    [][\A c \in RemoteInputs :
          (/\ \E i \in 1..Len(remote_candidates) : remote_candidates[i].addr = c.addr
           /\ last_added' = Some([side |-> "remote", cand |-> c])
           /\ AddRemoteCandidate(c))
          => /\ ~add_remote_candidate(c, TRUE).ret
             /\ remote_candidates' = remote_candidates]_vars

\* C19: add_local_candidate and add_remote_candidate called with a candidate
\* whose component-id is not 1 return false and leave the candidate lists and
\* the checklist unchanged.
C19_OnlyComponentOne ==
    [][/\ \A c \in PrefHost.locals :
            (/\ c.comp # 1
             /\ last_added' = Some([side |-> "local", cand |-> c])
             /\ AddLocalCandidate(c))
            => /\ ~add_local_candidate(c, TRUE).ret
               /\ UNCHANGED <<local_candidates, remote_candidates, candidate_pairs>>
       /\ \A c \in PrefHost.remotes :
            (/\ c.comp # 1
             /\ last_added' = Some([side |-> "remote", cand |-> c])
             /\ AddRemoteCandidate(c))
            => /\ ~add_remote_candidate(c, TRUE).ret
               /\ UNCHANGED <<local_candidates, remote_candidates, candidate_pairs>>]_vars

\* The non-discarded local candidates that match c on (addr, base, raddr).
live_matches(c) ==
    {i \in 1..Len(local_candidates) :
        /\ ~local_candidates[i].discarded
        /\ local_candidates[i].addr = c.addr
        /\ local_candidates[i].base = c.base
        /\ local_candidates[i].raddr = c.raddr}

\* C20: invalidate_candidate(c) returns true if and only if some non-discarded
\* local candidate matches c on (addr, base, raddr); when it returns true such
\* a candidate is marked discarded and every pair of its local index is
\* removed; when it returns false nothing changes.
C20_InvalidateCandidate ==
    [][\A c \in ManyLocals :
          (last_added' = None /\ InvalidateCandidate(c))
          => /\ invalidate_candidate(c).ret <=> live_matches(c) # {}
             /\ invalidate_candidate(c).ret
                  => \E i \in live_matches(c) :
                        /\ local_candidates'
                             = [local_candidates EXCEPT ![i] = set_discarded(@)]
                        /\ candidate_pairs'
                             = SelectSeq(candidate_pairs,
                                         LAMBDA p : p.local_idx # i)
             /\ ~invalidate_candidate(c).ret
                  => UNCHANGED <<local_candidates, candidate_pairs>>]_vars

-----------------------------------------------------------------------------
(* Properties of accepts_message *)

\* Binding requests of every USERNAME and MESSAGE-INTEGRITY key: each half the
\* local ufrag, the remote ufrag or neither, the key the local password, the
\* remote password or neither.
AcceptInputs ==
    {BindingRequest(left, right, key, 9, TRUE, PrioOf("PeerReflexive", 65535, 1),
                    FALSE) :
        left \in {"L", "R", "X"}, right \in {"L", "R", "X"},
        key \in {"Lpwd", "Rpwd", "X"}}

\* C21 as stated, in the states where remote credentials are set:
\* accepts_message returns true for a Binding request exactly when the right
\* half of USERNAME is the local ufrag, the left half is the remote ufrag, and
\* the integrity verifies under the remote password.
C21_AcceptsAsStated ==
    IsSome(remote_credentials)
    => \A m \in AcceptInputs :
          accepts_message(m) = "accept"
            <=> /\ split_username(m)[2] = local_credentials.username
                /\ split_username(m)[1] = Get(remote_credentials).username
                /\ check_integrity(m, Get(remote_credentials).password)

\* C21, amended: with remote credentials set, accepts_message returns true for
\* a Binding request exactly when the left half of USERNAME is the local ufrag,
\* the right half is the remote ufrag and the integrity verifies under the
\* local password, and for a response exactly when the integrity verifies
\* under the remote password.
C21_AcceptsMessage ==
    IsSome(remote_credentials)
    => /\ \A m \in AcceptInputs :
             accepts_message(m) = "accept"
               <=> /\ split_username(m)[1] = local_credentials.username
                   /\ split_username(m)[2] = Get(remote_credentials).username
                   /\ check_integrity(m, local_credentials.password)
       /\ \A m \in ResponseInputs :
             accepts_message(m) = "accept"
               <=> check_integrity(m, Get(remote_credentials).password)
       /\ \A m \in AcceptInputs \cup ResponseInputs :
             accepts_message(m) \in {"accept", "reject"}

\* With remote credentials set, a Binding request of USERNAME local:remote
\* signed with the local password was accepted: its response waits.
C21_Witness ==
    /\ IsSome(remote_credentials)
    /\ panicked = None
    /\ accepts_message(ValidRequest(FALSE)) = "accept"
    /\ request_answered

-----------------------------------------------------------------------------
(* Properties of handle_timeout *)

\* The Instants at which the pairs of the checklist were probed.
sent_times ==
    UNION {{candidate_pairs[i].attempts[k].sent :
               k \in 1..Len(candidate_pairs[i].attempts)} :
           i \in 1..Len(candidate_pairs)}

\* C22: a handle_timeout(now) with now < last_now + Ta leaves last_now, the
\* checklist, the request queue, the scheduled nomination and the transmit
\* queue unchanged; a tick that sends a probe makes its now the last_now, comes
\* at least Ta after the last_now before it and after every probe recorded,
\* and last_now never moves back: two probes are sent by ticks at least Ta
\* apart.
C22_PacedTickDoesNothing ==
    [][/\ \A d \in TimeSteps :
            (/\ clock' = clock + d
             /\ IsSome(last_now)
             /\ clock' < Get(last_now) + TIMING_ADVANCE
             /\ HandleTimeout(d))
            => UNCHANGED <<last_now, candidate_pairs, stun_server_queue,
                           scheduled_nomination_check, transmit>>
       /\ trans_count' # trans_count
            => /\ last_now' = Some(clock')
               /\ IsSome(last_now) => clock' >= Get(last_now) + TIMING_ADVANCE
               /\ \A t \in sent_times : clock' >= t + TIMING_ADVANCE
       /\ IsSome(last_now) => IsSome(last_now') /\ Get(last_now') >= Get(last_now)]_vars

\* A second probe was sent, and a tick less than Ta after it has run.
C22_Witness ==
    /\ trans_count = 2
    /\ IsSome(last_now)
    /\ clock = Get(last_now) + 25
    /\ sent_times # {}
    /\ \A t \in sent_times : t <= Get(last_now)

\* What the step appended to the transmit queue (nothing when it polled).
appended_transmits ==
    IF Len(transmit') >= Len(transmit)
    THEN SubSeq(transmit', Len(transmit) + 1, Len(transmit'))
    ELSE <<>>

\* The Binding requests among them.
appended_requests ==
    SelectSeq(appended_transmits, LAMBDA t : is_binding_request(t.contents))

\* C23: no Binding request is appended to the transmit queue while the remote
\* credentials are unset, whatever candidates and pairs exist and however many
\* ticks occur; no pair records a probe either.
C23_NoProbeWithoutCredentials ==
    [][remote_credentials = None
         => /\ appended_requests = <<>>
            /\ trans_count' = trans_count
            /\ sent_times' = {}]_vars

\* Without remote credentials a tick has passed pacing with a pair waiting on
\* the checklist, and nothing was sent.
C23_Witness ==
    /\ remote_credentials = None
    /\ last_now = Some(clock)
    /\ clock >= 50
    /\ candidate_pairs # <<>>
    /\ \A i \in 1..Len(candidate_pairs) : candidate_pairs[i].state = "Waiting"
    /\ trans_count = 0

\* The step probed pair k of the checklist at Instant now: pair k records a new
\* attempt at now, no other pair changes, and one Binding request from the base
\* of its local candidate to the addr of its remote candidate is appended.
probed_pair(k, now) ==
    /\ candidate_pairs'
         = [candidate_pairs EXCEPT ![k] = new_attempt(@, now, trans_count')]
    /\ Len(appended_transmits) = 1
    /\ is_binding_request(appended_transmits[1].contents)
    /\ appended_transmits[1].source
         = local_candidates[candidate_pairs[k].local_idx].base
    /\ appended_transmits[1].destination
         = remote_candidates[candidate_pairs[k].remote_idx].addr

\* Pair k is the first pair of the checklist with the smallest
\* next_binding_attempt(now), that time is not after now, and if pair k was
\* never probed no never-probed pair has a higher priority.
first_due(k, now) ==
    /\ next_binding_attempt(candidate_pairs[k], now) <= now
    /\ \A j \in 1..Len(candidate_pairs) :
          /\ next_binding_attempt(candidate_pairs[j], now)
               >= next_binding_attempt(candidate_pairs[k], now)
          /\ j < k => next_binding_attempt(candidate_pairs[j], now)
                        > next_binding_attempt(candidate_pairs[k], now)
          /\ (candidate_pairs[k].attempts = <<>> /\ candidate_pairs[j].attempts = <<>>)
               => PrioGeq(candidate_pairs[k].prio, candidate_pairs[j].prio)

\* C24: a handle_timeout call appends at most one Transmit; a tick that sends a
\* probe sends it on the first pair of the checklist with the smallest
\* next_binding_attempt(now), which is not after now, so that never-probed
\* pairs are probed in descending priority order, one per tick.
C24_EarliestDueProbe ==
    [][/\ clock' # clock => Len(appended_transmits) <= 1
       /\ trans_count' # trans_count
            => \E k \in 1..Len(candidate_pairs) :
                  probed_pair(k, clock') /\ first_due(k, clock')]_vars

\* Three probes were sent: on the first pair, on the second pair 100 ms later,
\* and, an initial RTO after the first, on the first pair again while the pair
\* of lowest priority is still waiting.
C24_Witness ==
    /\ Len(candidate_pairs) >= 3
    /\ Len(candidate_pairs[1].attempts) = 2
    /\ Len(candidate_pairs[2].attempts) = 1
    /\ candidate_pairs[1].attempts[1].sent < candidate_pairs[2].attempts[1].sent
    /\ candidate_pairs[Len(candidate_pairs)].attempts = <<>>

\* The server request queue never holds a request: handle_receive aborts on
\* the requests that would be queued (see C5 and C6).
queue_never_filled == stun_server_queue = <<>>

\* C25: with remote credentials set, a tick that passes pacing removes at most
\* one non-stale request from the server queue and processes it; the tick that
\* removes one ends there: it runs no nomination and no failure sweep and sends
\* no probe, so it leaves what stun_server_handle_request leaves.
C25_ServedTickEndsThere ==
    [][\A d \in TimeSteps :
          (/\ clock' = clock + d
           /\ IsSome(remote_credentials)
           /\ last_now' = Some(clock')
           /\ HandleTimeout(d)
           /\ drop_stale(stun_server_queue, clock') # <<>>)
          => /\ stun_server_queue' = Tail(drop_stale(stun_server_queue, clock'))
             /\ trans_count' = trans_count
             /\ appended_requests = <<>>
             /\ \E r \in {stun_server_handle_request(
                             clock', Head(drop_stale(stun_server_queue, clock')),
                             TRUE)} :
                   /\ candidate_pairs' = r.pairs
                   /\ remote_candidates' = r.remotes
                   /\ scheduled_nomination_check' = r.sched
                   /\ transmit' = r.transmit]_vars

-----------------------------------------------------------------------------
(* Properties of the STUN server path *)

\* What every handle_receive step leaves alone, told without running the call.
receive_frame ==
    /\ last_added' = None
    /\ UNCHANGED <<last_now, remote_credentials, controlling, state, events,
                   trans_count>>

\* A Binding request from the peer at 3 to the host candidate 1 that carries
\* USE-CANDIDATE.
NominatingRequest ==
    [source |-> 3, destination |-> 1, contents |-> Some(ValidRequest(TRUE))]

\* C26: a Binding request whose remote ufrag differs from the stored remote
\* ufrag, or that carries USE-CANDIDATE while this agent is controlling, is
\* rejected with no effect: no response Transmit, no new remote candidate, no
\* new pair, no change to any pair (its remote-binding-request counter, its
\* nominated flag), and no nomination scheduled.
C26_RejectedRequestNoEffect ==
    [][\A d \in ReceiveSteps, receive \in MainHost.receives :
          (/\ receive_frame
           /\ IsSome(remote_credentials)
           /\ IsSome(receive.contents)
           /\ is_binding_request(Get(receive.contents))
           /\ \/ split_username(Get(receive.contents))[2]
                   # Get(remote_credentials).username
              \/ Get(receive.contents).use_candidate /\ controlling
           /\ HandleReceive(d, receive))
          => /\ panicked' = None
             /\ UNCHANGED <<transmit, remote_candidates, local_candidates,
                            candidate_pairs, scheduled_nomination_check,
                            stun_server_queue>>]_vars

\* A controlling agent with remote credentials holds a pair that is not
\* nominated and has counted a Binding request, and handle_receive of a
\* request with USE-CANDIDATE leaves every field as it is.
C26_Witness ==
    /\ controlling
    /\ IsSome(remote_credentials)
    /\ panicked = None
    /\ Len(candidate_pairs) = 1
    /\ candidate_pairs[1].remote_binding_requests = 1
    /\ ~candidate_pairs[1].nominated
    /\ handle_receive(clock, NominatingRequest, TRUE).transmit = transmit
    /\ handle_receive(clock, NominatingRequest, TRUE).pairs = candidate_pairs

\* handle_receive hands the Binding request of this datagram to
\* stun_server_handle_request, which goes on to serve it: remote credentials
\* are set, accepts_message accepts, neither early return is taken, and the
\* destination is the addr of a Host or Relayed local candidate.
request_served(receive) ==
    /\ IsSome(remote_credentials)
    /\ IsSome(receive.contents)
    /\ is_binding_request(Get(receive.contents))
    /\ accepts_message(Get(receive.contents)) = "accept"
    /\ IsSome(Get(receive.contents).prio)
    /\ ~request_rejected(StunRequest(clock, receive.source, receive.destination,
                                     Get(receive.contents)))
    /\ \E i \in 1..Len(local_candidates) :
          /\ local_candidates[i].kind \in {"Host", "Relayed"}
          /\ local_candidates[i].addr = receive.destination

\* The checklist after the step without its pair k.
pairs_but(k) ==
    [i \in 1..(Len(candidate_pairs') - 1) |->
        IF i < k THEN candidate_pairs'[i] ELSE candidate_pairs'[i + 1]]

\* Pair k of the checklist after the step is the one pair whose
\* remote-binding-request counter the step raised, by one: a pair held before,
\* every other pair as it was, or a new pair with the count 1 among the pairs
\* held before.
counted_on(k) ==
    \/ /\ Len(candidate_pairs') = Len(candidate_pairs)
       /\ candidate_pairs'[k].remote_binding_requests
            = candidate_pairs[k].remote_binding_requests + 1
       /\ \A i \in 1..Len(candidate_pairs) :
             i # k => candidate_pairs'[i] = candidate_pairs[i]
    \/ /\ Len(candidate_pairs') = Len(candidate_pairs) + 1
       /\ candidate_pairs'[k].remote_binding_requests = 1
       /\ pairs_but(k) = candidate_pairs

\* C27: every Binding request accepted and processed with known remote
\* credentials raises the remote-binding-request counter of exactly one pair by
\* one and appends exactly one Binding success response of the request's
\* transaction id, from the base of that pair's local candidate to the addr of
\* that pair's remote candidate, which is the request's source.
C27_ServedRequestAnswered ==
    [][\A d \in ReceiveSteps, receive \in MainHost.receives :
          (receive_frame /\ request_served(receive) /\ HandleReceive(d, receive))
          => /\ panicked' = None
             /\ Len(appended_transmits) = 1
             /\ is_successful_binding_response(appended_transmits[1].contents)
             /\ appended_transmits[1].contents.trans_id
                  = Get(receive.contents).trans_id
             /\ appended_transmits[1].destination = receive.source
             /\ \E k \in 1..Len(candidate_pairs') :
                   /\ counted_on(k)
                   /\ appended_transmits[1].source
                        = local_candidates'[candidate_pairs'[k].local_idx].base
                   /\ appended_transmits[1].destination
                        = remote_candidates'[candidate_pairs'[k].remote_idx].addr]_vars

\* The response to the peer's request waits, sent from the base of the local
\* candidate to the addr of the remote candidate of a pair that has counted it.
C27_Witness ==
    /\ panicked = None
    /\ Len(transmit) = 1
    /\ is_successful_binding_response(transmit[1].contents)
    /\ \E k \in 1..Len(candidate_pairs) :
          /\ candidate_pairs[k].remote_binding_requests = 1
          /\ transmit[1].source = local_candidates[candidate_pairs[k].local_idx].base
          /\ transmit[1].destination
               = remote_candidates[candidate_pairs[k].remote_idx].addr

\* handle_receive hands the Binding request of this datagram to
\* stun_server_handle_request, which takes neither early return.
request_processed(receive) ==
    /\ IsSome(remote_credentials)
    /\ IsSome(receive.contents)
    /\ is_binding_request(Get(receive.contents))
    /\ accepts_message(Get(receive.contents)) = "accept"
    /\ IsSome(Get(receive.contents).prio)
    /\ ~request_rejected(StunRequest(clock, receive.source, receive.destination,
                                     Get(receive.contents)))

\* The pairs of the checklist after the step whose remote candidate is the
\* last of the remote candidates.
pairs_of_last_remote ==
    {k \in 1..Len(candidate_pairs') :
        candidate_pairs'[k].remote_idx = Len(remote_candidates')}

\* C28: when the source of a processed Binding request is the addr of no known
\* remote candidate, exactly one remote candidate is appended (PeerReflexive,
\* addr = base = source, the priority of the request's PRIORITY, the foundation
\* "tmp_prflx") and at most one pair is created, of the local candidate the
\* destination addresses and the new remote candidate, which is paired with no
\* other local candidate; when the source is the addr of a known remote
\* candidate, none is appended.
C28_PeerReflexiveRemote ==
    [][\A d \in ReceiveSteps, receive \in PeerHost.receives :
          (receive_frame /\ request_processed(receive) /\ HandleReceive(d, receive))
          => IF \E i \in 1..Len(remote_candidates) :
                   remote_candidates[i].addr = receive.source
             THEN remote_candidates' = remote_candidates
             ELSE /\ remote_candidates'
                       = Append(remote_candidates,
                                [kind |-> "PeerReflexive", addr |-> receive.source,
                                 base |-> receive.source, raddr |-> None, comp |-> 1,
                                 found |-> "tmp_prflx", pref |-> None,
                                 prio |-> Get(receive.contents).prio,
                                 discarded |-> FALSE])
                  /\ Cardinality(pairs_of_last_remote) <= 1
                  /\ pairs_of_last_remote = {} => candidate_pairs' = candidate_pairs
                  /\ \A k \in pairs_of_last_remote :
                        /\ pairs_but(k) = candidate_pairs
                        /\ local_candidates[candidate_pairs'[k].local_idx].addr
                             = receive.destination
                        /\ local_candidates[candidate_pairs'[k].local_idx].kind
                             \in {"Host", "Relayed"}]_vars

\* Two host candidates are in use, the peer at 4 has sent a Binding request to
\* the first, and the remote candidate made for it is paired with the first
\* host candidate alone.
C28_Witness ==
    /\ panicked = None
    /\ Len(local_candidates) = 2
    /\ \A i \in 1..2 : ~local_candidates[i].discarded
    /\ \E r \in 1..Len(remote_candidates) :
          /\ remote_candidates[r].found = REMOTE_PEER_REFLEXIVE_TEMP_FOUNDATION
          /\ remote_candidates[r].addr = 4
          /\ \E k \in 1..Len(candidate_pairs) :
                /\ candidate_pairs[k].remote_idx = r
                /\ local_candidates[candidate_pairs[k].local_idx].addr = 1
                /\ \A j \in 1..Len(candidate_pairs) :
                      candidate_pairs[j].remote_idx = r => j = k

-----------------------------------------------------------------------------
(* Properties of nomination *)

\* The (local_idx, remote_idx) of the nominated pairs of a checklist.
nominated_in(pairs) ==
    {<<pairs[i].local_idx, pairs[i].remote_idx>> :
        i \in {j \in 1..Len(pairs) : pairs[j].nominated}}

\* The step is handle_receive of a served Binding request with USE-CANDIDATE
\* from the addr of remote candidate key[2] to the addr of local candidate key[1].
nominating_request_for(key) ==
    \E d \in ReceiveSteps, receive \in MainHost.receives :
        /\ request_served(receive)
        /\ Get(receive.contents).use_candidate
        /\ local_candidates[key[1]].addr = receive.destination
        /\ remote_candidates'[key[2]].addr = receive.source
        /\ HandleReceive(d, receive)

\* C29: on a controlled agent a pair becomes nominated only by the processing
\* of an accepted Binding request with USE-CANDIDATE for that pair, every such
\* request leaves its pair nominated, and a controlled agent never schedules a
\* nomination check.
C29_ControlledNomination ==
    [][(~controlling /\ ~controlling')
         => /\ \A key \in nominated_in(candidate_pairs') \ nominated_in(candidate_pairs) :
                  nominating_request_for(key)
            /\ \A d \in ReceiveSteps, receive \in MainHost.receives :
                  (/\ receive_frame
                   /\ request_served(receive)
                   /\ Get(receive.contents).use_candidate
                   /\ HandleReceive(d, receive))
                  => \E k \in 1..Len(candidate_pairs') :
                        counted_on(k) /\ candidate_pairs'[k].nominated
            /\ IsSome(scheduled_nomination_check')
                 => scheduled_nomination_check' = scheduled_nomination_check]_vars

\* Pair k of the checklist is the pair the step's Binding response was for: it
\* has recorded the response, and no other pair has changed.
answered_on(k) ==
    /\ k \in 1..Len(candidate_pairs)
    /\ candidate_pairs[k].attempts # <<>>
    /\ candidate_pairs'
         = [candidate_pairs EXCEPT ![k].state = "Succeeded",
                                   ![k].valid_idx = candidate_pairs'[k].valid_idx]

\* C30: a nomination check is scheduled only on a controlling agent, only when
\* the pair the current request or response touched is Succeeded, has counted
\* a remote Binding request and is not nominated, and only when no check is
\* pending; it is scheduled at now + Ta of that call; a pending check is never
\* moved or overwritten: it is only taken off, by a tick at or after its time.
C30_NominationScheduled ==
    [][scheduled_nomination_check' # scheduled_nomination_check
         => \/ /\ scheduled_nomination_check = None
               /\ controlling
               /\ scheduled_nomination_check' = Some(clock' + TIMING_ADVANCE)
               /\ \E k \in 1..Len(candidate_pairs') :
                     /\ counted_on(k) \/ answered_on(k)
                     /\ candidate_pairs'[k].state = "Succeeded"
                     /\ candidate_pairs'[k].remote_binding_requests >= 1
                     /\ ~candidate_pairs'[k].nominated
            \/ /\ IsSome(scheduled_nomination_check)
               /\ scheduled_nomination_check' = None
               /\ last_now' = Some(clock')
               /\ clock' >= Get(scheduled_nomination_check)]_vars

\* A check is pending on a controlling agent for a Succeeded pair that has
\* counted a request, and a call has come since it was scheduled.
C30_Witness ==
    /\ controlling
    /\ panicked = None
    /\ IsSome(scheduled_nomination_check)
    /\ Get(scheduled_nomination_check) < clock + TIMING_ADVANCE
    /\ Get(scheduled_nomination_check) > clock
    /\ \E k \in 1..Len(candidate_pairs) :
          /\ candidate_pairs[k].state = "Succeeded"
          /\ candidate_pairs[k].remote_binding_requests >= 1
          /\ ~candidate_pairs[k].nominated

\* The pairs of the checklist that are Succeeded and have counted a remote
\* Binding request.
eligible_pairs ==
    {i \in 1..Len(candidate_pairs) :
        /\ candidate_pairs[i].state = "Succeeded"
        /\ candidate_pairs[i].remote_binding_requests > 0}

\* C31: a tick that passes pacing, has no queued request to deliver and finds
\* a scheduled nomination check with now >= its time clears the schedule,
\* marks the highest-priority pair that is Succeeded with
\* remote_binding_requests > 0 nominated (no pair is changed if none is
\* eligible), and ends without sweeping or sending a probe.
C31_NominationTick ==
    [][\A d \in ProbeTimeSteps :
          (/\ clock' = clock + d
           /\ IsSome(scheduled_nomination_check)
           /\ clock' >= Get(scheduled_nomination_check)
           /\ last_now' = Some(clock')
           /\ stun_server_queue = <<>>
           /\ HandleTimeout(d))
          => /\ scheduled_nomination_check' = None
             /\ trans_count' = trans_count
             /\ transmit' = transmit
             /\ IF eligible_pairs = {}
                THEN candidate_pairs' = candidate_pairs
                ELSE \E k \in eligible_pairs :
                        /\ \A j \in eligible_pairs :
                              PrioGeq(candidate_pairs[k].prio, candidate_pairs[j].prio)
                        /\ candidate_pairs'
                             = [candidate_pairs EXCEPT ![k].nominated = TRUE]]_vars

\* The scheduled tick has run on the controlling agent with two pairs
\* eligible: the schedule is cleared, the first pair is nominated, the second
\* is not, and no probe was sent since.
C31_Witness ==
    /\ controlling
    /\ panicked = None
    /\ scheduled_nomination_check = None
    /\ last_now = Some(clock)
    /\ Len(candidate_pairs) = 2
    /\ eligible_pairs = {1, 2}
    /\ candidate_pairs[1].nominated
    /\ ~candidate_pairs[2].nominated
    /\ \A t \in sent_times : t < clock

\* C32: an outgoing Binding request carries USE-CANDIDATE if and only if, when
\* it is built, the agent is controlling and the pair it is sent on is
\* nominated; so the first probe a controlling agent sends on a pair after it
\* nominated the pair at the scheduled tick carries USE-CANDIDATE.
C32_UseCandidate ==
    [][trans_count' # trans_count
         => \E k \in 1..Len(candidate_pairs) :
               /\ probed_pair(k, clock')
               /\ appended_transmits[1].contents.use_candidate
                    <=> (controlling /\ candidate_pairs[k].nominated)]_vars

\* The controlling agent has nominated a pair it had probed once, and the
\* second probe on that pair, sent by the last tick, carries USE-CANDIDATE.
C32_Witness ==
    /\ controlling
    /\ scheduled_nomination_check = None
    /\ \E k \in 1..Len(candidate_pairs) :
          /\ candidate_pairs[k].nominated
          /\ candidate_pairs[k].state = "Succeeded"
          /\ Len(candidate_pairs[k].attempts) = 2
          /\ candidate_pairs[k].attempts[2].sent = clock
          /\ \E i \in 1..Len(transmit) :
                /\ is_binding_request(transmit[i].contents)
                /\ transmit[i].contents.use_candidate
                /\ transmit[i].contents.trans_id = candidate_pairs[k].attempts[2].id

-----------------------------------------------------------------------------
(* Properties of the STUN client path *)

\* The receive is a success response that passes accepts_message.
response_accepted(receive) ==
    /\ IsSome(receive.contents)
    /\ is_successful_binding_response(Get(receive.contents))
    /\ accepts_message(Get(receive.contents)) = "accept"

\* Index of the first pair that sent the transaction id, 0 if there is none.
pair_of_transaction(trans_id) ==
    IF \E i \in 1..Len(candidate_pairs) : has_binding_attempt(candidate_pairs[i], trans_id)
    THEN CHOOSE i \in 1..Len(candidate_pairs) :
            /\ has_binding_attempt(candidate_pairs[i], trans_id)
            /\ \A j \in 1..(i - 1) : ~has_binding_attempt(candidate_pairs[j], trans_id)
    ELSE 0

\* Indexes of the local candidates whose addr is the mapped address.
locals_at(mapped) ==
    {i \in 1..Len(local_candidates) : local_candidates[i].addr = mapped}

valid_local_exists ==
    \A i \in 1..Len(candidate_pairs) :
       candidate_pairs[i].state = "Succeeded"
       => /\ IsSome(candidate_pairs[i].valid_idx)
          /\ Get(candidate_pairs[i].valid_idx) \in 1..Len(local_candidates)

\* C33: a success response whose transaction id belongs to a pair makes the
\* pair Succeeded with, as valid local, the first local candidate whose addr
\* is the mapped address (no candidate added), or else one appended
\* peer-reflexive local candidate (addr the mapped address, base the base of
\* the local the probe was sent from, priority that local's prio_prflx), with
\* no event and no new pair; a response whose transaction id belongs to no
\* pair changes nothing; every Succeeded pair's valid local index refers to a
\* held local candidate.
C33_ResponseValidLocal ==
    /\ []valid_local_exists
    /\ [][\A d \in ReceiveSteps, receive \in MainHost.receives :
            (receive_frame /\ response_accepted(receive) /\ HandleReceive(d, receive))
            => LET m == Get(receive.contents)
                   k == pair_of_transaction(m.trans_id)
                   sent_from == local_candidates[candidate_pairs[k].local_idx]
               IN /\ panicked' = None
                  /\ events' = events
                  /\ transmit' = transmit
                  /\ remote_candidates' = remote_candidates
                  /\ Len(candidate_pairs') = Len(candidate_pairs)
                  /\ IF k = 0
                     THEN /\ local_candidates' = local_candidates
                          /\ candidate_pairs' = candidate_pairs
                          /\ scheduled_nomination_check' = scheduled_nomination_check
                     ELSE /\ \A j \in 1..Len(candidate_pairs) :
                                j # k => candidate_pairs'[j] = candidate_pairs[j]
                          /\ candidate_pairs'[k].state = "Succeeded"
                          /\ IF locals_at(Get(m.mapped)) # {}
                             THEN /\ local_candidates' = local_candidates
                                  /\ Get(candidate_pairs'[k].valid_idx) \in locals_at(Get(m.mapped))
                                  /\ \A i \in locals_at(Get(m.mapped)) :
                                        Get(candidate_pairs'[k].valid_idx) <= i
                             ELSE /\ Len(local_candidates') = Len(local_candidates) + 1
                                  /\ SubSeq(local_candidates', 1, Len(local_candidates))
                                       = local_candidates
                                  /\ candidate_pairs'[k].valid_idx
                                       = Some(Len(local_candidates'))
                                  /\ LET c == local_candidates'[Len(local_candidates')]
                                     IN /\ c.kind = "PeerReflexive"
                                        /\ c.addr = Get(m.mapped)
                                        /\ c.base = sent_from.base
                                        /\ c.prio = Some(prio_prflx(sent_from))
                                        /\ ~c.discarded]_vars

\* A response with a mapped address no local candidate has was received for
\* the only pair: the pair is Succeeded and its valid local is the appended
\* peer-reflexive candidate, which is in no pair and was not announced.
C33_Witness ==
    /\ panicked = None
    /\ Len(local_candidates) = 2
    /\ Len(candidate_pairs) = 1
    /\ local_candidates[1].kind = "Host"
    /\ local_candidates[2].kind = "PeerReflexive"
    /\ local_candidates[2].addr # local_candidates[1].addr
    /\ local_candidates[2].base = local_candidates[1].addr
    /\ candidate_pairs[1].state = "Succeeded"
    /\ candidate_pairs[1].local_idx = 1
    /\ candidate_pairs[1].valid_idx = Some(2)

-----------------------------------------------------------------------------
(* Properties of discarded local candidates *)

\* C34: no pair of the checklist has a discarded local candidate as its local
\* candidate.
C34_NoPairOnDiscardedLocal ==
    \A i \in 1..Len(candidate_pairs) :
       ~local_candidates[candidate_pairs[i].local_idx].discarded

\* C35: add_local_candidate returns false only when a non-discarded local
\* candidate with the same (addr, base) and a higher priority is held; so a
\* candidate that was invalidated is accepted when it is added again.
C35_RejectedOnlyForLiveBetter ==
    [][\A c \in MainHost.locals :
          (/\ last_added' = Some([side |-> "local", cand |-> c])
           /\ ~add_local_candidate(c, TRUE).ret
           /\ AddLocalCandidate(c))
          => \E i \in 1..Len(local_candidates) :
                /\ ~local_candidates[i].discarded
                /\ local_candidates[i].addr = c.addr
                /\ local_candidates[i].base = c.base
                /\ prio(local_candidates[i])
                     > prio(set_local_preference(c, local_preference_for(local_candidates, c)))]_vars

-----------------------------------------------------------------------------
(* Properties of nominated pairs *)

\* Pair k of the checklist is still there after the step, on the same
\* candidates, nominated, Succeeded if it was, with the requests it counted.
nominated_kept(k) ==
    \E j \in 1..Len(candidate_pairs') :
       /\ candidate_pairs'[j].local_idx = candidate_pairs[k].local_idx
       /\ candidate_pairs'[j].remote_idx = candidate_pairs[k].remote_idx
       /\ candidate_pairs'[j].nominated
       /\ candidate_pairs[k].state = "Succeeded" => candidate_pairs'[j].state = "Succeeded"
       /\ candidate_pairs'[j].remote_binding_requests
            >= candidate_pairs[k].remote_binding_requests

\* C36: adding a local or remote candidate and processing a Binding request
\* or response (the steps that leave the clock alone) keep every nominated
\* pair whose local candidate is not discarded by the step.
C36_NominatedPairKept ==
    [][clock' = clock
         => \A k \in 1..Len(candidate_pairs) :
               (/\ candidate_pairs[k].nominated
                /\ ~local_candidates'[candidate_pairs[k].local_idx].discarded)
               => nominated_kept(k)]_vars

-----------------------------------------------------------------------------
(* Properties of poll_timeout *)

\* Pairs whose next Binding request is due.
due_pairs ==
    {i \in 1..Len(candidate_pairs) :
        next_binding_attempt(candidate_pairs[i], Get(last_now)) <= clock}

\* Work handle_timeout would do: a queued request it can answer, a scheduled
\* nomination check, a pair due for a probe.
work_pending ==
    \/ stun_server_queue # <<>> /\ IsSome(remote_credentials)
    \/ IsSome(scheduled_nomination_check)
    \/ due_pairs # {}

deadline_for_work ==
    (panicked = None /\ IsSome(last_now) /\ work_pending) => IsSome(poll_timeout)

\* C37: after the first tick poll_timeout returns a deadline whenever a
\* queued request can be answered, a nomination check is scheduled or a pair
\* is due for a probe; under a host that ticks only at the instants
\* poll_timeout returns, every scheduled nomination check is run and every
\* queued request is taken from the queue, unless the agent panics first.
C37_PollTimeoutDrivesWork ==
    /\ []deadline_for_work
    /\ IsSome(scheduled_nomination_check)
         ~> (scheduled_nomination_check = None \/ IsSome(panicked))
    /\ (stun_server_queue # <<>> /\ IsSome(remote_credentials))
         ~> (stun_server_queue = <<>> \/ IsSome(panicked))

\* The polled host has run a nomination check: a pair is nominated on the
\* controlling agent, no check is scheduled any more, and poll_timeout gives
\* the instant of the next probe.
C37_Witness ==
    /\ panicked = None
    /\ controlling
    /\ IsSome(last_now)
    /\ scheduled_nomination_check = None
    /\ \E k \in 1..Len(candidate_pairs) :
          /\ candidate_pairs[k].nominated
          /\ candidate_pairs[k].state = "Succeeded"
    /\ IsSome(poll_timeout)
    /\ Get(poll_timeout) > clock

-----------------------------------------------------------------------------
(* Properties of pairing *)

\* Only candidates were added and invalidated: no tick has run and the
\* checklist is below the cap.
only_candidates_changed ==
    /\ last_now = None
    /\ trans_count = 0
    /\ Len(candidate_pairs) < DefaultMaxCandidatePairs

same_family(l, r) == is_ipv4(l.addr) = is_ipv4(r.addr)

pairs_within_family ==
    \A k \in 1..Len(candidate_pairs) :
       same_family(local_candidates[candidate_pairs[k].local_idx],
                   remote_candidates[candidate_pairs[k].remote_idx])

every_live_local_paired ==
    \A i \in 1..Len(local_candidates), j \in 1..Len(remote_candidates) :
       (/\ ~local_candidates[i].discarded
        /\ same_family(local_candidates[i], remote_candidates[j]))
       => \E k \in 1..Len(candidate_pairs) :
             /\ local_candidates[candidate_pairs[k].local_idx].base
                  = local_candidates[i].base
             /\ remote_candidates[candidate_pairs[k].remote_idx].addr
                  = remote_candidates[j].addr

\* C38: after add_local_candidate, add_remote_candidate and
\* invalidate_candidate calls only, below the pair cap, every non-discarded
\* local candidate l and every remote candidate r of the same address family
\* have a pair (local base l.base, remote addr r.addr) in the checklist, and
\* no pair joins candidates of different address families.
C38_CrossProductPaired ==
    only_candidates_changed => (every_live_local_paired /\ pairs_within_family)

====
